---- MODULE Spec2Model ----
(***************************************************************************)
(* A model of rustmail's interactive state machine: the App context        *)
(* (src/src/ui/app.rs), the key handlers (src/src/ui/keybindings.rs), the  *)
(* driver loop that executes the returned Action (src/src/main.rs), the    *)
(* thread reconstruction (src/src/email/mod.rs) and the reminder store     *)
(* (src/src/reminders.rs).                                                 *)
(*                                                                         *)
(* A Rust String is a sequence of characters, each character a one-letter  *)
(* TLA+ string; Option<T> is a sequence of length at most one.  Every      *)
(* handler `fn f(app: &mut App, ..) -> Action` is an operator from the App *)
(* record to the pair [app, action].                                       *)
(***************************************************************************)
EXTENDS Integers, Sequences, FiniteSets, TLC

VARIABLES
    app,        \* the App struct (ui/app.rs)
    reminders,  \* RemindersFile.reminders (reminders.rs)
    action,     \* the Action returned by handle_key_event, until run_app has matched it
    now,        \* Utc::now(), in minutes
    thread      \* what the latest FetchThread or fetch_thread call did, None before any

vars == <<app, reminders, action, now, thread>>

\* ------------------------------------------------------------------------
\* Bounds of the model
\* ------------------------------------------------------------------------

\* Total number of characters typed into the compose fields.
MaxChars == 2
\* Largest repeat count typed in Compose Normal mode.
MaxCount == 2
\* Largest uid of the mailbox: the message list holds at most that many messages.
MaxUid == 3
\* Longest search query typed.
MaxQuery == 2
\* Most reminders stored.
MaxReminders == 1
\* Longest References header, and most candidates a thread search finds.
MaxRefs == 2
MaxCands == 2
MaxNow == 1
\* The clock advances MaxTicks times, by TickMinutes minutes each time.
MaxTicks == 3
TickMinutes == 30

\* ------------------------------------------------------------------------
\* Option<T>, strings and characters
\* ------------------------------------------------------------------------

None == <<>>
Some(x) == <<x>>
IsSome(o) == o /= <<>>
IsNone(o) == o = <<>>
Unwrap(o) == o[1]
UnwrapOr(o, d) == IF o = <<>> THEN d ELSE o[1]

Min(a, b) == IF a < b THEN a ELSE b
\* usize::saturating_sub
SatSub(a, b) == IF a > b THEN a - b ELSE 0

\* char::len_utf8: the one two-byte character of the model is é.
len_utf8(c) == IF c = "é" THEN 2 ELSE 1

\* char::is_whitespace
is_whitespace(c) == c \in {" ", "\n"}

RECURSIVE ByteLen(_)
\* str::len: the length in bytes.
ByteLen(s) == IF s = <<>> THEN 0 ELSE len_utf8(Head(s)) + ByteLen(Tail(s))

\* s.chars().count()
CharCount(s) == Len(s)

\* s.chars().take(n)
Take(s, n) == SubSeq(s, 1, Min(n, Len(s)))
\* the characters from 0-based index n on
Drop(s, n) == SubSeq(s, Min(n, Len(s)) + 1, Len(s))

\* field.chars().take(n).map(|c| c.len_utf8()).sum()
ByteOffset(s, n) == ByteLen(Take(s, n))

RECURSIVE CharsBefore(_, _)
\* The number of whole characters of s that end at or before byte offset b;
\* b is a character boundary iff ByteOffset(s, CharsBefore(s, b)) = b.
CharsBefore(s, b) ==
    IF s = <<>> \/ len_utf8(Head(s)) > b THEN 0
    ELSE 1 + CharsBefore(Tail(s), b - len_utf8(Head(s)))

\* String::insert(byte_pos, c), for byte_pos on a character boundary.
StringInsert(s, byte_pos, c) ==
    LET n == CharsBefore(s, byte_pos)
    IN  Take(s, n) \o <<c>> \o Drop(s, n)

\* String::replace_range(byte_pos..byte_pos + char_len, ""), removing the one
\* character that starts at byte_pos.
StringRemoveChar(s, byte_pos) ==
    LET n == CharsBefore(s, byte_pos)
    IN  Take(s, n) \o Drop(s, n + 1)

\* ------------------------------------------------------------------------
\* Types of ui/app.rs
\* ------------------------------------------------------------------------

Views == {"Inbox", "EmailView", "Compose", "Help", "Search", "Command", "Remind"}
Folders == {"Inbox", "Sent", "Drafts", "Trash", "Archive"}
ComposeFields == {"To", "Cc", "Subject", "Body"}

\* VimState: the pending operator and the pending repeat count.
VimStateDefault == [operator |-> "None", count |-> None]

ComposeStateDefault ==
    [ to |-> <<>>, cc |-> <<>>, subject |-> <<>>, body |-> <<>>,
      active_field |-> "To", mode |-> "New", edit_mode |-> "Insert",
      cursor_pos |-> 0, reply_chain |-> <<>>, chain_scroll |-> 0,
      vim |-> VimStateDefault, in_reply_to |-> None, references |-> <<>> ]

SearchStateDefault == [query |-> <<>>, results |-> <<>>, selected |-> 0, active |-> FALSE]
CommandStateDefault == [input |-> <<>>, cursor |-> 0]
RemindStateDefault == [input |-> <<>>, cursor |-> 0]

\* App::new
AppNew ==
    [ emails |-> <<>>, list_state |-> Some(0), view |-> "Inbox", scroll_offset |-> 0,
      compose |-> ComposeStateDefault, notification |-> None, should_quit |-> FALSE,
      pending_command |-> None, current_folder |-> "Inbox",
      search |-> SearchStateDefault, command |-> CommandStateDefault,
      remind |-> RemindStateDefault, starred |-> {}, selected |-> {},
      \* not a field of App: whether the thread has panicked
      panicked |-> FALSE ]

\* Action (ui/keybindings.rs): one record shape for every variant.
Act(t) == [type |-> t, uid |-> 0, folder |-> "", text |-> <<>>]
ActionNone == Act("None")
ActMarkAsRead(u) == [Act("MarkAsRead") EXCEPT !.uid = u]
ActChangeFolder(f) == [Act("ChangeFolder") EXCEPT !.folder = f]
ActRemindEmail(u, s) == [Act("RemindEmail") EXCEPT !.uid = u, !.text = s]

\* KeyEvent: the key code, the character of KeyCode::Char, the CONTROL modifier.
Key(code) == [code |-> code, c |-> "", ctrl |-> FALSE]
Char(c) == [code |-> "Char", c |-> c, ctrl |-> FALSE]
Ctrl(c) == [code |-> "Char", c |-> c, ctrl |-> TRUE]
IsChar(key, c) == key.code = "Char" /\ key.c = c

\* What a handler returns: the App it leaves and its Action.
Ret(a, act) == [app |-> a, action |-> act]

\* A Notification holds its message's fixed text.
notify(a, msg) == [a EXCEPT !.notification = Some([message |-> msg, is_error |-> FALSE])]
notify_error(a, msg) == [a EXCEPT !.notification = Some([message |-> msg, is_error |-> TRUE])]
\* A variant that leaves the notification in place.
keep_notification(a) == a
clear_notification(a) == [a EXCEPT !.notification = None]

\* ------------------------------------------------------------------------
\* Text cursor engine (ui/app.rs)
\* ------------------------------------------------------------------------

get_current_field(a) ==
    CASE a.compose.active_field = "To" -> a.compose.to
      [] a.compose.active_field = "Cc" -> a.compose.cc
      [] a.compose.active_field = "Subject" -> a.compose.subject
      [] OTHER -> a.compose.body

\* *get_current_field_mut() = s
set_current_field(a, s) ==
    CASE a.compose.active_field = "To" -> [a EXCEPT !.compose.to = s]
      [] a.compose.active_field = "Cc" -> [a EXCEPT !.compose.cc = s]
      [] a.compose.active_field = "Subject" -> [a EXCEPT !.compose.subject = s]
      [] OTHER -> [a EXCEPT !.compose.body = s]

move_cursor_left(a) ==
    IF a.compose.cursor_pos > 0
    THEN [a EXCEPT !.compose.cursor_pos = @ - 1]
    ELSE a

\* The bound is the field's length in bytes.
move_cursor_right(a) ==
    LET len == ByteLen(get_current_field(a))
    IN  IF a.compose.cursor_pos < len
        THEN [a EXCEPT !.compose.cursor_pos = @ + 1]
        ELSE a

RECURSIVE SkipWhile(_, _, _)
\* while pos < chars.len() && is_whitespace(chars[pos]) = ws { pos += 1 }
SkipWhile(chars, pos, ws) ==
    IF pos < Len(chars) /\ is_whitespace(chars[pos + 1]) = ws
    THEN SkipWhile(chars, pos + 1, ws)
    ELSE pos

move_cursor_word_forward(a) ==
    LET field == get_current_field(a)
        p1 == SkipWhile(field, a.compose.cursor_pos, FALSE)
        p2 == SkipWhile(field, p1, TRUE)
    IN  [a EXCEPT !.compose.cursor_pos = Min(p2, ByteLen(field))]

RECURSIVE BackWhileSpace(_, _)
\* while pos > 0 && chars[pos].is_whitespace() { pos -= 1 }, for pos < chars.len()
BackWhileSpace(chars, pos) ==
    IF pos > 0 /\ is_whitespace(chars[pos + 1])
    THEN BackWhileSpace(chars, pos - 1)
    ELSE pos

RECURSIVE BackWhileWord(_, _)
\* while pos > 0 && !chars[pos - 1].is_whitespace() { pos -= 1 }
BackWhileWord(chars, pos) ==
    IF pos > 0 /\ ~is_whitespace(chars[pos])
    THEN BackWhileWord(chars, pos - 1)
    ELSE pos

\* chars[pos] with pos > 0 at or past chars.len() is an index out of bounds: the
\* thread panics and the session is over.
move_cursor_word_backward(a) ==
    LET chars == get_current_field(a)
        p0 == IF a.compose.cursor_pos > 0 THEN a.compose.cursor_pos - 1 ELSE 0
    IN  IF p0 > 0 /\ p0 >= Len(chars)
        THEN [a EXCEPT !.panicked = TRUE]
        ELSE [a EXCEPT !.compose.cursor_pos =
                            BackWhileWord(chars, BackWhileSpace(chars, p0))]

insert_char(a, c) ==
    LET pos == a.compose.cursor_pos
        field == get_current_field(a)
        char_pos == Len(Take(field, pos))
        byte_pos == ByteOffset(field, char_pos)
    IN  IF byte_pos <= ByteLen(field)
        THEN [set_current_field(a, StringInsert(field, byte_pos, c))
                 EXCEPT !.compose.cursor_pos = @ + 1]
        ELSE a

delete_char_before(a) ==
    IF a.compose.cursor_pos > 0
    THEN LET pos == a.compose.cursor_pos - 1
             chars == get_current_field(a)
         IN  IF pos < Len(chars)
             THEN [set_current_field(a, StringRemoveChar(chars, ByteOffset(chars, pos)))
                      EXCEPT !.compose.cursor_pos = @ - 1]
             ELSE a
    ELSE a

delete_char_at(a) ==
    LET pos == a.compose.cursor_pos
        chars == get_current_field(a)
    IN  IF pos < Len(chars)
        THEN set_current_field(a, StringRemoveChar(chars, ByteOffset(chars, pos)))
        ELSE a

sync_cursor_to_field(a) ==
    LET len == CharCount(get_current_field(a))
    IN  [a EXCEPT !.compose.cursor_pos = Min(@, len)]

\* ------------------------------------------------------------------------
\* Vim state and operators of the compose editor.  Their bodies are not in
\* ui/app.rs as given (only their calls, in ui/keybindings.rs): they follow the
\* editor's description, "Modal Compose Editor".
\* ------------------------------------------------------------------------

\* The repeat count, 1 when none was typed.
get_vim_count(a) == UnwrapOr(a.compose.vim.count, 1)

reset_vim_state(a) == [a EXCEPT !.compose.vim = VimStateDefault]

RECURSIVE Repeat(_, _, _)
\* for _ in 0..n { Op(app) }
Repeat(Op(_), a, n) == IF n = 0 THEN a ELSE Repeat(Op, Op(a), n - 1)

\* The e motion: to the last character of the word at or after the cursor.
move_cursor_word_end(a) ==
    LET chars == get_current_field(a)
        p0 == Min(a.compose.cursor_pos + 1, Len(chars))
        p1 == SkipWhile(chars, p0, TRUE)
        p2 == SkipWhile(chars, p1, FALSE)
    IN  [a EXCEPT !.compose.cursor_pos = Min(SatSub(p2, 1), Len(chars))]

\* dw: deletes from the cursor up to the start of the next word.
delete_word_forward(a) ==
    LET chars == get_current_field(a)
        pos == Min(a.compose.cursor_pos, Len(chars))
        end == SkipWhile(chars, SkipWhile(chars, pos, FALSE), TRUE)
    IN  [set_current_field(a, Take(chars, pos) \o Drop(chars, end))
            EXCEPT !.compose.cursor_pos = pos]

\* de: deletes from the cursor through the end of the word.
delete_to_word_end(a) ==
    LET chars == get_current_field(a)
        pos == Min(a.compose.cursor_pos, Len(chars))
        end == SkipWhile(chars, SkipWhile(chars, pos, TRUE), FALSE)
    IN  [set_current_field(a, Take(chars, pos) \o Drop(chars, end))
            EXCEPT !.compose.cursor_pos = pos]

RECURSIVE LineStart(_, _)
\* The index of the first character of the line that holds index pos.
LineStart(chars, pos) ==
    IF pos > 0 /\ chars[pos] /= "\n" THEN LineStart(chars, pos - 1) ELSE pos

RECURSIVE LineEnd(_, _)
\* The index just past the line that holds index pos (its newline excluded).
LineEnd(chars, pos) ==
    IF pos < Len(chars) /\ chars[pos + 1] /= "\n" THEN LineEnd(chars, pos + 1) ELSE pos

\* dd: deletes the line under the cursor, its newline included.
delete_current_line(a) ==
    LET chars == get_current_field(a)
        pos == Min(a.compose.cursor_pos, Len(chars))
        start == LineStart(chars, pos)
        end == LineEnd(chars, pos)
        rest == Take(chars, start) \o Drop(chars, Min(end + 1, Len(chars)))
    IN  [set_current_field(a, rest) EXCEPT !.compose.cursor_pos = Min(start, Len(rest))]

\* ------------------------------------------------------------------------
\* Compose key handlers (ui/keybindings.rs)
\* ------------------------------------------------------------------------

\* Tab: To -> Cc -> Subject -> Body -> To
FieldCycle(f) ==
    CASE f = "To" -> "Cc" [] f = "Cc" -> "Subject" [] f = "Subject" -> "Body" [] OTHER -> "To"
\* Enter, j: To -> Cc -> Subject -> Body -> Body
FieldNext(f) ==
    CASE f = "To" -> "Cc" [] f = "Cc" -> "Subject" [] OTHER -> "Body"
\* k: Body -> Subject -> Cc -> To -> To
FieldPrev(f) ==
    CASE f = "Body" -> "Subject" [] f = "Subject" -> "Cc" [] OTHER -> "To"

handle_compose_insert(a, key) ==
    CASE key.code = "Esc" ->
            Ret([a EXCEPT !.compose.edit_mode = "Normal"], ActionNone)
      [] key.code = "Tab" ->
            Ret(sync_cursor_to_field([a EXCEPT !.compose.active_field = FieldCycle(@)]),
                ActionNone)
      [] key.code = "Backspace" -> Ret(delete_char_before(a), ActionNone)
      [] key.code = "Enter" ->
            IF a.compose.active_field = "Body"
            THEN Ret(insert_char(a, "\n"), ActionNone)
            ELSE Ret(sync_cursor_to_field([a EXCEPT !.compose.active_field = FieldNext(@)]),
                     ActionNone)
      [] key.code = "Left" -> Ret(move_cursor_left(a), ActionNone)
      [] key.code = "Right" -> Ret(move_cursor_right(a), ActionNone)
      [] key.code = "Char" -> Ret(insert_char(a, key.c), ActionNone)
      [] OTHER -> Ret(a, ActionNone)

Digits == {"1", "2", "3", "4", "5", "6", "7", "8", "9"}
\* c.to_digit(10)
to_digit(c) ==
    CASE c = "0" -> 0 [] c = "1" -> 1 [] c = "2" -> 2 [] c = "3" -> 3 [] c = "4" -> 4
      [] c = "5" -> 5 [] c = "6" -> 6 [] c = "7" -> 7 [] c = "8" -> 8 [] OTHER -> 9

\* A variant whose i enters Insert mode with the pending operator and count left.
handle_compose_normal_keep_pending(a, key) ==
    CASE key.code = "Char" /\ key.c \in Digits ->
            Ret([a EXCEPT !.compose.vim.count =
                            Some(UnwrapOr(a.compose.vim.count, 0) * 10 + to_digit(key.c))],
                ActionNone)
      [] IsChar(key, "d") -> Ret([a EXCEPT !.compose.vim.operator = "Delete"], ActionNone)
      [] IsChar(key, "i") -> Ret([a EXCEPT !.compose.edit_mode = "Insert"], ActionNone)
      [] OTHER -> Ret(reset_vim_state(a), ActionNone)

\* A variant whose d and c act at the first press, with nothing armed.
handle_compose_normal_one_stage(a, key) ==
    CASE IsChar(key, "d") -> Ret(reset_vim_state(delete_current_line(a)), ActionNone)
      [] IsChar(key, "c") ->
            Ret(reset_vim_state([delete_current_line(a) EXCEPT !.compose.edit_mode = "Insert"]),
                ActionNone)
      [] IsChar(key, "w") ->
            Ret(reset_vim_state(Repeat(move_cursor_word_forward, a, get_vim_count(a))),
                ActionNone)
      [] IsChar(key, "e") ->
            Ret(reset_vim_state(Repeat(move_cursor_word_end, a, get_vim_count(a))),
                ActionNone)
      [] OTHER -> Ret(reset_vim_state(a), ActionNone)

\* The w and e arms: the motion alone, or the armed operator over it.
ComposeMotion(a, pending_op, Move(_), Delete(_)) ==
    LET count == get_vim_count(a)
        done == CASE pending_op = "Delete" -> Repeat(Delete, a, count)
                  [] pending_op = "Change" ->
                        [Repeat(Delete, a, count) EXCEPT !.compose.edit_mode = "Insert"]
                  [] OTHER -> Repeat(Move, a, count)
    IN  Ret(reset_vim_state(done), ActionNone)

handle_compose_normal(a, key) ==
    LET pending_op == a.compose.vim.operator
        InsertMode(b) == [reset_vim_state(b) EXCEPT !.compose.edit_mode = "Insert"]
    IN
    CASE key.code = "Char" /\ key.c \in Digits ->
            Ret([a EXCEPT !.compose.vim.count =
                            Some(UnwrapOr(a.compose.vim.count, 0) * 10 + to_digit(key.c))],
                ActionNone)
      [] IsChar(key, "0") /\ IsSome(a.compose.vim.count) ->
            Ret([a EXCEPT !.compose.vim.count = Some(Unwrap(a.compose.vim.count) * 10)],
                ActionNone)
      [] IsChar(key, "d") ->
            IF pending_op = "Delete"
            THEN Ret(reset_vim_state(delete_current_line(a)), ActionNone)
            ELSE Ret([a EXCEPT !.compose.vim.operator = "Delete"], ActionNone)
      [] IsChar(key, "c") ->
            IF pending_op = "Change"
            THEN Ret(reset_vim_state([delete_current_line(a)
                                         EXCEPT !.compose.edit_mode = "Insert"]),
                     ActionNone)
            ELSE Ret([a EXCEPT !.compose.vim.operator = "Change"], ActionNone)
      [] IsChar(key, "i") -> Ret(InsertMode(a), ActionNone)
      [] IsChar(key, "a") -> Ret(move_cursor_right(InsertMode(a)), ActionNone)
      [] IsChar(key, "A") ->
            Ret([InsertMode(a) EXCEPT !.compose.cursor_pos = CharCount(get_current_field(a))],
                ActionNone)
      [] IsChar(key, "I") ->
            Ret([InsertMode(a) EXCEPT !.compose.cursor_pos = 0], ActionNone)
      [] IsChar(key, "o") ->
            Ret(insert_char([InsertMode(a) EXCEPT
                                !.compose.cursor_pos = CharCount(get_current_field(a))],
                            "\n"),
                ActionNone)
      [] IsChar(key, "h") \/ key.code = "Left" ->
            Ret(reset_vim_state(Repeat(move_cursor_left, a, get_vim_count(a))), ActionNone)
      [] IsChar(key, "l") \/ key.code = "Right" ->
            Ret(reset_vim_state(Repeat(move_cursor_right, a, get_vim_count(a))), ActionNone)
      [] IsChar(key, "w") ->
            ComposeMotion(a, pending_op, move_cursor_word_forward, delete_word_forward)
      [] IsChar(key, "b") ->
            Ret(reset_vim_state(Repeat(move_cursor_word_backward, a, get_vim_count(a))),
                ActionNone)
      [] IsChar(key, "e") ->
            ComposeMotion(a, pending_op, move_cursor_word_end, delete_to_word_end)
      [] IsChar(key, "0") /\ IsNone(a.compose.vim.count) ->
            Ret(reset_vim_state([a EXCEPT !.compose.cursor_pos = 0]), ActionNone)
      [] IsChar(key, "$") ->
            Ret(reset_vim_state([a EXCEPT !.compose.cursor_pos =
                                    SatSub(CharCount(get_current_field(a)), 1)]),
                ActionNone)
      [] IsChar(key, "x") ->
            Ret(reset_vim_state(Repeat(delete_char_at, a, get_vim_count(a))), ActionNone)
      [] IsChar(key, "j") \/ key.code = "Down" ->
            Ret(reset_vim_state(sync_cursor_to_field(
                    [a EXCEPT !.compose.active_field = FieldNext(@)])), ActionNone)
      [] IsChar(key, "k") \/ key.code = "Up" ->
            Ret(reset_vim_state(sync_cursor_to_field(
                    [a EXCEPT !.compose.active_field = FieldPrev(@)])), ActionNone)
      [] IsChar(key, "q") ->
            Ret([reset_vim_state(a) EXCEPT !.view = "Inbox"], ActionNone)
      [] key.code = "Esc" ->
            IF pending_op /= "None" \/ IsSome(a.compose.vim.count)
            THEN Ret(reset_vim_state(a), ActionNone)
            ELSE LET has_content == \/ a.compose.to /= <<>>
                                    \/ a.compose.cc /= <<>>
                                    \/ a.compose.subject /= <<>>
                                    \/ a.compose.body /= <<>>
                 IN  IF has_content
                     THEN Ret(a, Act("SaveDraft"))
                     ELSE Ret([a EXCEPT !.view = "Inbox"], ActionNone)
      [] OTHER -> Ret(reset_vim_state(a), ActionNone)

handle_compose_keys(a, key) ==
    IF key.ctrl /\ IsChar(key, "s")
    THEN Ret(a, Act("SendEmail"))
    ELSE IF a.compose.edit_mode = "Insert"
         THEN handle_compose_insert(a, key)
         ELSE handle_compose_normal(a, key)

\* ------------------------------------------------------------------------
\* Messages, the list, search and selection (email/mod.rs, ui/app.rs)
\* ------------------------------------------------------------------------

\* Email: date, message_id and in_reply_to are Options.
Email(uid, from, subject, date, seen, message_id, in_reply_to, references) ==
    [ uid |-> uid, subject |-> subject, from |-> from, from_address |-> from,
      date |-> date, body |-> <<>>, seen |-> seen, important |-> FALSE,
      message_id |-> message_id, in_reply_to |-> in_reply_to, references |-> references ]

\* 0..n-1 as a Vec
Range0(n) == [i \in 1..n |-> i - 1]

\* The elements of a sequence, and the elements that satisfy Keep, in order.
Elems(s) == {s[i] : i \in 1..Len(s)}
Retain(s, Keep(_)) == SelectSeq(s, Keep)

\* Vec::get(i), i counted from 0
Get(s, i) == IF i >= 0 /\ i < Len(s) THEN Some(s[i + 1]) ELSE None

\* iter().position(|&i| i == x)
Position(s, x) ==
    IF \E i \in 1..Len(s) : s[i] = x
    THEN Some((CHOOSE i \in 1..Len(s) : s[i] = x /\ \A j \in 1..(i - 1) : s[j] /= x) - 1)
    ELSE None

RECURSIVE IsSubsequence(_, _)
IsSubsequence(q, t) ==
    IF q = <<>> THEN TRUE
    ELSE IF t = <<>> THEN FALSE
    ELSE IF Head(q) = Head(t) THEN IsSubsequence(Tail(q), Tail(t))
    ELSE IsSubsequence(q, Tail(t))

\* SkimMatcherV2::fuzzy_match(text, query).is_some(): the query's characters occur
\* in the text in order (the model's texts are lower case).
fuzzy_match(text, query) == IsSubsequence(query, text)

\* format!("{} {} {}", email.from, email.subject, email.body)
SearchText(e) == e.from \o <<" ">> \o e.subject \o <<" ">> \o e.body

\* A variant that leaves the highlighted result where it is.
update_search_keep_selected(a) ==
    LET query == a.search.query
        Matches(i) == fuzzy_match(SearchText(a.emails[i + 1]), query)
        results == IF query = <<>>
                   THEN Range0(Len(a.emails))
                   ELSE SelectSeq(Range0(Len(a.emails)), Matches)
    IN  [a EXCEPT !.search.results = results]

update_search(a) ==
    LET query == a.search.query
        Matches(i) == fuzzy_match(SearchText(a.emails[i + 1]), query)
        results == IF query = <<>>
                   THEN Range0(Len(a.emails))
                   ELSE SelectSeq(Range0(Len(a.emails)), Matches)
    IN  [a EXCEPT !.search.results = results, !.search.selected = 0]

set_emails(a, emails) ==
    IF emails /= <<>>
    THEN [a EXCEPT !.emails = emails, !.list_state = Some(0)]
    ELSE [a EXCEPT !.emails = emails]

\* Option<&Email>
selected_email(a) ==
    IF IsSome(a.list_state) THEN Get(a.emails, Unwrap(a.list_state)) ELSE None

get_visible_indices(a) ==
    IF a.search.active THEN a.search.results ELSE Range0(Len(a.emails))

\* A variant that wraps around to the first index after the last.
select_next_wrapping(a) ==
    LET indices == get_visible_indices(a)
    IN  IF indices = <<>> THEN a
        ELSE LET current == UnwrapOr(a.list_state, 0)
                 current_pos == UnwrapOr(Position(indices, current), 0)
                 next_pos == (current_pos + 1) % Len(indices)
             IN  [a EXCEPT !.list_state = Some(indices[next_pos + 1])]

select_next(a) ==
    LET indices == get_visible_indices(a)
    IN  IF indices = <<>> THEN a
        ELSE LET current == UnwrapOr(a.list_state, 0)
                 current_pos == UnwrapOr(Position(indices, current), 0)
                 next_pos == Min(current_pos + 1, Len(indices) - 1)
             IN  [a EXCEPT !.list_state = Some(indices[next_pos + 1])]

select_previous(a) ==
    LET indices == get_visible_indices(a)
    IN  IF indices = <<>> THEN a
        ELSE LET current == UnwrapOr(a.list_state, 0)
                 current_pos == UnwrapOr(Position(indices, current), 0)
             IN  [a EXCEPT !.list_state = Some(indices[SatSub(current_pos, 1) + 1])]

select_first(a) ==
    LET indices == get_visible_indices(a)
    IN  IF indices /= <<>> THEN [a EXCEPT !.list_state = Some(indices[1])] ELSE a

select_last(a) ==
    LET indices == get_visible_indices(a)
    IN  IF indices /= <<>> THEN [a EXCEPT !.list_state = Some(indices[Len(indices)])] ELSE a

clear_search_filter(a) ==
    [a EXCEPT !.search.active = FALSE, !.search.query = <<>>, !.search.results = <<>>]

\* The multi-select set.  toggle_selection, clear_selection and get_selected_uids
\* are called by ui/keybindings.rs and main.rs; their bodies are not in ui/app.rs
\* as given, and follow "Multi-select: toggled per message by identifier".
toggle_selection(a) ==
    LET e == selected_email(a)
    IN  IF IsSome(e)
        THEN IF Unwrap(e).uid \in a.selected
             THEN [a EXCEPT !.selected = @ \ {Unwrap(e).uid}]
             ELSE [a EXCEPT !.selected = @ \cup {Unwrap(e).uid}]
        ELSE a

clear_selection(a) == [a EXCEPT !.selected = {}]

get_selected_uids(a) == a.selected

toggle_star(a) ==
    LET e == selected_email(a)
    IN  IF IsSome(e)
        THEN IF Unwrap(e).uid \in a.starred
             THEN [a EXCEPT !.starred = @ \ {Unwrap(e).uid}]
             ELSE [a EXCEPT !.starred = @ \cup {Unwrap(e).uid}]
        ELSE a

\* EmailInChain of a message
ChainEntry(e) == [from |-> e.from, date |-> e.date, body |-> e.body]

RePrefix == <<"R", "e", ":">>
starts_with(s, prefix) == Len(s) >= Len(prefix) /\ SubSeq(s, 1, Len(prefix)) = prefix

start_reply(a, reply_all) ==
    LET e == selected_email(a)
    IN  IF IsSome(e)
        THEN LET email == Unwrap(e)
                 compose ==
                     [ComposeStateDefault EXCEPT
                        !.to = email.from_address,
                        !.subject = IF starts_with(email.subject, RePrefix)
                                    THEN email.subject
                                    ELSE RePrefix \o <<" ">> \o email.subject,
                        !.mode = IF reply_all THEN "ReplyAll" ELSE "Reply",
                        !.reply_chain = <<ChainEntry(email)>>,
                        !.active_field = "Body",
                        !.edit_mode = "Insert",
                        !.cursor_pos = 0]
             IN  [a EXCEPT !.compose = compose, !.view = "Compose"]
        ELSE a

FwdPrefix == <<"F", "w", "d", ":", " ">>
Dashes == <<"-", "-", "-", "-", "-", "-", "-", "-", "-", "-">>
\* "\n\n---------- Forwarded message ----------\nFrom: "
FwdBanner ==
    <<"\n", "\n">> \o Dashes
        \o <<" ", "F", "o", "r", "w", "a", "r", "d", "e", "d", " ",
             "m", "e", "s", "s", "a", "g", "e", " ">>
        \o Dashes \o <<"\n", "F", "r", "o", "m", ":", " ">>
\* "\nSubject: "
FwdSubject == <<"\n", "S", "u", "b", "j", "e", "c", "t", ":", " ">>

\* A variant that addresses the forward to the original sender.
start_forward_to_sender(a) ==
    LET e == selected_email(a)
    IN  IF IsSome(e)
        THEN LET email == Unwrap(e)
                 compose ==
                     [ComposeStateDefault EXCEPT
                        !.to = email.from_address,
                        !.subject = FwdPrefix \o email.subject,
                        !.body = FwdBanner \o email.from \o FwdSubject \o email.subject
                                     \o <<"\n", "\n">> \o email.body,
                        !.mode = "Forward",
                        !.active_field = "To",
                        !.edit_mode = "Insert"]
             IN  [a EXCEPT !.compose = compose, !.view = "Compose"]
        ELSE a

start_forward(a) ==
    LET e == selected_email(a)
    IN  IF IsSome(e)
        THEN LET email == Unwrap(e)
                 compose ==
                     [ComposeStateDefault EXCEPT
                        !.subject = FwdPrefix \o email.subject,
                        !.body = FwdBanner \o email.from \o FwdSubject \o email.subject
                                     \o <<"\n", "\n">> \o email.body,
                        !.mode = "Forward",
                        !.active_field = "To",
                        !.edit_mode = "Insert"]
             IN  [a EXCEPT !.compose = compose, !.view = "Compose"]
        ELSE a

\* ------------------------------------------------------------------------
\* Key handlers of the other views (ui/keybindings.rs)
\* ------------------------------------------------------------------------

\* The main key match of handle_inbox_keys.  J, K (select_*_with_selection) and I
\* (cycle_importance_filter) call code that is neither in ui/app.rs as given nor
\* described: these keys are not among the keys of the model.
inbox_main_match(a, key) ==
    CASE IsChar(key, "q") -> Ret([a EXCEPT !.should_quit = TRUE], ActionNone)
      [] IsChar(key, "j") \/ key.code = "Down" -> Ret(select_next(a), ActionNone)
      [] IsChar(key, "k") \/ key.code = "Up" -> Ret(select_previous(a), ActionNone)
      [] IsChar(key, "g") -> Ret([a EXCEPT !.pending_command = Some("g")], ActionNone)
      [] IsChar(key, "G") -> Ret(select_last(a), ActionNone)
      [] key.code = "Enter" \/ IsChar(key, "l") ->
            LET e == selected_email(a)
            IN  IF IsSome(e)
                THEN Ret([a EXCEPT !.view = "EmailView", !.scroll_offset = 0],
                         IF ~Unwrap(e).seen THEN ActMarkAsRead(Unwrap(e).uid)
                         ELSE ActionNone)
                ELSE Ret(a, ActionNone)
      [] IsChar(key, "c") ->
            Ret([a EXCEPT !.compose = ComposeStateDefault, !.view = "Compose"], ActionNone)
      [] IsChar(key, "e") ->
            Ret(a, IF IsSome(selected_email(a)) THEN Act("ArchiveEmail") ELSE ActionNone)
      [] IsChar(key, "d") ->
            Ret(a, IF IsSome(selected_email(a)) THEN Act("DeleteEmail") ELSE ActionNone)
      [] IsChar(key, "s") -> Ret(toggle_star(a), ActionNone)
      [] IsChar(key, "x") -> Ret(toggle_selection(a), ActionNone)
      [] key.code = "Esc" ->
            Ret(IF a.selected /= {} THEN clear_selection(a) ELSE a, ActionNone)
      [] IsChar(key, "h") ->
            IF IsSome(selected_email(a))
            THEN Ret([a EXCEPT !.remind = RemindStateDefault, !.view = "Remind"], ActionNone)
            ELSE Ret(a, ActionNone)
      [] IsChar(key, "R") -> Ret(a, Act("Refresh"))
      [] IsChar(key, "/") ->
            Ret([update_search([a EXCEPT !.search = SearchStateDefault])
                    EXCEPT !.view = "Search"], ActionNone)
      [] IsChar(key, ":") ->
            Ret([a EXCEPT !.command = CommandStateDefault, !.view = "Command"], ActionNone)
      [] IsChar(key, "?") -> Ret([a EXCEPT !.view = "Help"], ActionNone)
      [] OTHER -> Ret(a, ActionNone)

\* A variant whose gd opens the Trash.
GFolderTrashForD(key) ==
    CASE IsChar(key, "i") -> Some("Inbox")
      [] IsChar(key, "t") -> Some("Sent")
      [] IsChar(key, "d") -> Some("Trash")
      [] IsChar(key, "e") -> Some("Trash")
      [] IsChar(key, "a") -> Some("Archive")
      [] OTHER -> None

\* The folder of a g sequence, if the key completes one.
GFolder(key) ==
    CASE IsChar(key, "i") -> Some("Inbox")
      [] IsChar(key, "t") -> Some("Sent")
      [] IsChar(key, "d") -> Some("Drafts")
      [] IsChar(key, "e") -> Some("Trash")
      [] IsChar(key, "a") -> Some("Archive")
      [] OTHER -> None

\* A pending g is consumed by g, i, t, d, e, a; after any other key but Esc the
\* inner match falls through (`_ => {}`) to the main key match.
handle_inbox_keys(a, key) ==
    IF IsSome(a.pending_command)
    THEN IF key.code = "Esc"
         THEN Ret([a EXCEPT !.pending_command = None], ActionNone)
         ELSE LET pending == Unwrap(a.pending_command)
                  a1 == [a EXCEPT !.pending_command = None]
              IN  CASE pending = "g" /\ IsChar(key, "g") -> Ret(select_first(a1), ActionNone)
                    [] pending = "g" /\ IsSome(GFolder(key)) ->
                          Ret(clear_search_filter(a1), ActChangeFolder(Unwrap(GFolder(key))))
                    [] OTHER -> inbox_main_match(a1, key)
    ELSE inbox_main_match(a, key)

\* u16::MAX, where saturating_add stops
U16Max == 65535

half_page_down(a, height) ==
    [a EXCEPT !.scroll_offset = Min(@ + (height \div 2), U16Max)]
half_page_up(a, height) ==
    [a EXCEPT !.scroll_offset = SatSub(@, height \div 2)]

handle_email_view_keys(a, key, view_height) ==
    CASE IsChar(key, "j") \/ key.code = "Down" ->
            Ret([select_next(a) EXCEPT !.scroll_offset = 0], ActionNone)
      [] IsChar(key, "k") \/ key.code = "Up" ->
            Ret([select_previous(a) EXCEPT !.scroll_offset = 0], ActionNone)
      [] key.ctrl /\ IsChar(key, "d") -> Ret(half_page_down(a, view_height), ActionNone)
      [] key.ctrl /\ IsChar(key, "u") -> Ret(half_page_up(a, view_height), ActionNone)
      [] IsChar(key, " ") -> Ret(half_page_down(a, view_height), ActionNone)
      [] IsChar(key, "r") -> Ret(start_reply(a, FALSE), Act("FetchThread"))
      [] IsChar(key, "a") -> Ret(start_reply(a, TRUE), Act("FetchThread"))
      [] IsChar(key, "f") -> Ret(start_forward(a), ActionNone)
      [] IsChar(key, "e") ->
            Ret(a, IF a.current_folder = "Drafts" THEN Act("EditDraft")
                   ELSE Act("ArchiveEmail"))
      [] IsChar(key, "d") /\ ~key.ctrl -> Ret(a, Act("DeleteEmail"))
      [] IsChar(key, "s") -> Ret(toggle_star(a), ActionNone)
      [] IsChar(key, "q") \/ key.code = "Esc" \/ key.code = "Left" ->
            Ret([a EXCEPT !.view = "Inbox", !.scroll_offset = 0], ActionNone)
      [] IsChar(key, "?") -> Ret([a EXCEPT !.view = "Help"], ActionNone)
      [] OTHER -> Ret(a, ActionNone)

\* String::pop
Pop(s) == IF s = <<>> THEN s ELSE SubSeq(s, 1, Len(s) - 1)

handle_search_keys(a, key) ==
    CASE key.code = "Esc" ->
            Ret([a EXCEPT !.search.active = FALSE, !.view = "Inbox"], ActionNone)
      [] key.code = "Enter" ->
            LET idx == Get(a.search.results, a.search.selected)
            IN  IF IsSome(idx)
                THEN Ret([a EXCEPT !.list_state = Some(Unwrap(idx)),
                                   !.search.active = TRUE,
                                   !.view = "Inbox"], ActionNone)
                ELSE Ret(a, ActionNone)
      [] key.code \in {"Down", "Tab"} \/ IsChar(key, "j") ->
            IF a.search.results /= <<>>
            THEN Ret([a EXCEPT !.search.selected = (@ + 1) % Len(a.search.results)],
                     ActionNone)
            ELSE Ret(a, ActionNone)
      [] (key.code \in {"Up", "BackTab"} \/ IsChar(key, "k")) /\ key.ctrl ->
            IF a.search.results /= <<>>
            THEN Ret([a EXCEPT !.search.selected =
                                  IF @ >= 1 THEN @ - 1 ELSE Len(a.search.results) - 1],
                     ActionNone)
            ELSE Ret(a, ActionNone)
      [] key.code = "Backspace" ->
            Ret(update_search([a EXCEPT !.search.query = Pop(@)]), ActionNone)
      [] key.code = "Char" ->
            Ret(update_search([a EXCEPT !.search.query = Append(@, key.c)]), ActionNone)
      [] OTHER -> Ret(a, ActionNone)

handle_help_keys(a, key) ==
    IF IsChar(key, "?") \/ key.code = "Esc" \/ IsChar(key, "q")
    THEN Ret([a EXCEPT !.view = "Inbox"], ActionNone)
    ELSE Ret(a, ActionNone)

RECURSIVE TrimStart(_)
TrimStart(s) == IF s /= <<>> /\ is_whitespace(Head(s)) THEN TrimStart(Tail(s)) ELSE s
RECURSIVE TrimEnd(_)
TrimEnd(s) == IF s /= <<>> /\ is_whitespace(s[Len(s)]) THEN TrimEnd(Pop(s)) ELSE s
\* str::trim
Trim(s) == TrimEnd(TrimStart(s))

handle_remind_keys(a, key) ==
    CASE key.code = "Esc" -> Ret([a EXCEPT !.view = "Inbox"], ActionNone)
      [] key.code = "Enter" ->
            LET e == selected_email(a)
            IN  IF IsSome(e)
                THEN Ret([a EXCEPT !.remind = RemindStateDefault, !.view = "Inbox"],
                         ActRemindEmail(Unwrap(e).uid, Trim(a.remind.input)))
                ELSE Ret(a, ActionNone)
      [] key.code = "Backspace" ->
            Ret([a EXCEPT !.remind.input = Pop(@),
                          !.remind.cursor = IF @ > 0 THEN @ - 1 ELSE @], ActionNone)
      [] key.code = "Char" ->
            Ret([a EXCEPT !.remind.input = Append(@, key.c), !.remind.cursor = @ + 1],
                ActionNone)
      [] OTHER -> Ret(a, ActionNone)

\* char::to_lowercase, for the letters of the model
to_lowercase_char(c) ==
    CASE c = "A" -> "a" [] c = "D" -> "d" [] c = "E" -> "e" [] c = "H" -> "h" [] c = "I" -> "i"
      [] c = "K" -> "k" [] c = "M" -> "m" [] c = "N" -> "n" [] c = "O" -> "o" [] c = "R" -> "r"
      [] c = "S" -> "s" [] c = "T" -> "t" [] c = "U" -> "u" [] c = "W" -> "w" [] c = "Y" -> "y"
      [] OTHER -> c
to_lowercase(s) == [i \in 1..Len(s) |-> to_lowercase_char(s[i])]

\* The commands of the palette.
CmdQuit == <<"q", "u", "i", "t">>
CmdRefresh == <<"r", "e", "f", "r", "e", "s", "h">>
CmdFolders ==
    { <<<<"i", "n", "b", "o", "x">>, "Inbox">>, <<<<"s", "e", "n", "t">>, "Sent">>,
      <<<<"d", "r", "a", "f", "t", "s">>, "Drafts">>,
      <<<<"t", "r", "a", "s", "h">>, "Trash">>,
      <<<<"a", "r", "c", "h", "i", "v", "e">>, "Archive">> }

execute_command(a, cmd) ==
    CASE cmd = <<"q">> \/ cmd = CmdQuit -> Ret([a EXCEPT !.should_quit = TRUE], ActionNone)
      [] cmd = CmdRefresh \/ cmd = <<"r">> -> Ret(a, Act("Refresh"))
      [] \E row \in CmdFolders : row[1] = cmd ->
            Ret(clear_search_filter(a),
                ActChangeFolder((CHOOSE row \in CmdFolders : row[1] = cmd)[2]))
      [] OTHER -> Ret(notify_error(a, "Unknown command"), ActionNone)

\* CommandState's suggestion list (update_suggestions, select_next,
\* select_previous, get_selected_command) is not in ui/app.rs as given, whose
\* CommandState holds the input and a cursor only: no suggestion is ever
\* selected, and Enter executes the trimmed, lower-cased input.
handle_command_keys(a, key) ==
    CASE key.code = "Esc" ->
            Ret([a EXCEPT !.command = CommandStateDefault, !.view = "Inbox"], ActionNone)
      [] key.code = "Enter" ->
            LET r == execute_command([a EXCEPT !.view = "Inbox"],
                                     to_lowercase(Trim(a.command.input)))
            IN  Ret([r.app EXCEPT !.command = CommandStateDefault], r.action)
      [] key.code = "Backspace" -> Ret([a EXCEPT !.command.input = Pop(@)], ActionNone)
      [] key.code = "Char" -> Ret([a EXCEPT !.command.input = Append(@, key.c)], ActionNone)
      [] OTHER -> Ret(a, ActionNone)

handle_key_event(a0, key, view_height) ==
    LET a == clear_notification(a0)
    IN  CASE a.view = "Inbox" -> handle_inbox_keys(a, key)
          [] a.view = "EmailView" -> handle_email_view_keys(a, key, view_height)
          [] a.view = "Compose" -> handle_compose_keys(a, key)
          [] a.view = "Help" -> handle_help_keys(a, key)
          [] a.view = "Search" -> handle_search_keys(a, key)
          [] a.view = "Command" -> handle_command_keys(a, key)
          [] a.view = "Remind" -> handle_remind_keys(a, key)

\* ------------------------------------------------------------------------
\* Thread reconstruction (email/mod.rs)
\* ------------------------------------------------------------------------

Contains(s, x) == \E i \in 1..Len(s) : s[i] = x

\* A variant that leaves the message's own id out of the list.
ThreadMessageIdsNoOwn(email) ==
    IF IsSome(email.in_reply_to) /\ ~Contains(email.references, Unwrap(email.in_reply_to))
    THEN Append(email.references, Unwrap(email.in_reply_to))
    ELSE email.references

\* message_ids: the references, then in_reply_to and message_id unless contained.
ThreadMessageIds(email) ==
    LET ids0 == email.references
        ids1 == IF IsSome(email.in_reply_to) /\ ~Contains(ids0, Unwrap(email.in_reply_to))
                THEN Append(ids0, Unwrap(email.in_reply_to))
                ELSE ids0
    IN  IF IsSome(email.message_id) /\ ~Contains(ids1, Unwrap(email.message_id))
        THEN Append(ids1, Unwrap(email.message_id))
        ELSE ids1

\* format!("HEADER Message-ID \"{}\"", id): the query is a sequence of words.
MessageIdPredicate(id) == <<"HEADER", "Message-ID", id>>

RECURSIVE build_or_query(_)
build_or_query(ids) ==
    CASE Len(ids) = 0 -> <<>>
      [] Len(ids) = 1 -> MessageIdPredicate(ids[1])
      [] OTHER -> <<"OR">> \o MessageIdPredicate(ids[1]) \o build_or_query(Tail(ids))

\* Option<DateTime> orders None before every Some.
DateLeq(d1, d2) == IsNone(d1) \/ (IsSome(d2) /\ Unwrap(d1) <= Unwrap(d2))

RECURSIVE InsertByDateBeforeEqual(_, _)
\* A variant that puts e before the elements of the same date.
InsertByDateBeforeEqual(sorted, e) ==
    IF sorted = <<>> THEN <<e>>
    ELSE IF DateLeq(Head(sorted).date, e.date) /\ Head(sorted).date /= e.date
         THEN <<Head(sorted)>> \o InsertByDateBeforeEqual(Tail(sorted), e)
         ELSE <<e>> \o sorted

RECURSIVE InsertByDate(_, _)
\* e after every element whose date is not later
InsertByDate(sorted, e) ==
    IF sorted = <<>> THEN <<e>>
    ELSE IF DateLeq(Head(sorted).date, e.date)
         THEN <<Head(sorted)>> \o InsertByDate(Tail(sorted), e)
         ELSE <<e>> \o sorted

RECURSIVE SortByDate(_)
\* emails.sort_by(|a, b| a.date.cmp(&b.date)): a stable sort
SortByDate(emails) ==
    IF emails = <<>> THEN <<>>
    ELSE InsertByDate(SortByDate(Pop(emails)), emails[Len(emails)])

\* The candidates that parse, in the order fetched (filter_map).
ParsedCandidates(cands) ==
    LET Parses(c) == IsSome(c)
        ok == SelectSeq(cands, Parses)
    IN  [i \in 1..Len(ok) |-> Unwrap(ok[i])]

ThreadOk(emails) == [ok |-> TRUE, emails |-> emails]
ThreadErr == [ok |-> FALSE, emails |-> <<>>]

\* The result of fetch_thread against a mailbox that answers srv: whether the
\* search and the fetch succeed, and the candidates found, each the message it
\* parses to or None when it does not parse.
fetch_thread_result(email, srv) ==
    LET message_ids == ThreadMessageIds(email)
    IN  IF message_ids = <<>> THEN ThreadOk(<<email>>)
        ELSE IF ~srv.search_ok THEN ThreadErr
        ELSE IF srv.cands = <<>> THEN ThreadOk(<<email>>)
        ELSE IF ~srv.fetch_ok THEN ThreadErr
        ELSE ThreadOk(SortByDate(ParsedCandidates(srv.cands)))

\* The query fetch_thread sends, None when it returns before building one.
fetch_thread_query(email) ==
    LET message_ids == ThreadMessageIds(email)
    IN  IF message_ids = <<>> THEN None ELSE Some(build_or_query(message_ids))

\* A fetch_thread call: the message, the mailbox's answer, the query sent and
\* the result returned.
fetch_thread(email, srv) ==
    [ email |-> email, called |-> TRUE, srv |-> srv,
      query |-> fetch_thread_query(email),
      result |-> fetch_thread_result(email, srv) ]

\* The mailbox is not asked.
NoSrv == [search_ok |-> FALSE, fetch_ok |-> FALSE, cands |-> <<>>]
\* Action::FetchThread handled without a fetch_thread call.
NotCalled(email) ==
    [ email |-> email, called |-> FALSE, srv |-> NoSrv, query |-> None,
      result |-> ThreadErr ]


\* ------------------------------------------------------------------------
\* Reminders (reminders.rs).  A Duration and a DateTime are numbers of minutes.
\* ------------------------------------------------------------------------

RECURSIVE SplitWhitespace(_, _)
\* str::split_whitespace, cur the word being read
SplitWhitespace(s, cur) ==
    IF s = <<>> THEN (IF cur = <<>> THEN <<>> ELSE <<cur>>)
    ELSE IF is_whitespace(Head(s))
         THEN (IF cur = <<>> THEN <<>> ELSE <<cur>>) \o SplitWhitespace(Tail(s), <<>>)
         ELSE SplitWhitespace(Tail(s), Append(cur, Head(s)))

DecimalDigits == Digits \cup {"0"}

RECURSIVE DigitsValue(_, _)
DigitsValue(s, acc) ==
    IF s = <<>> THEN acc ELSE DigitsValue(Tail(s), acc * 10 + to_digit(Head(s)))

\* i64::MAX (neg FALSE) and the magnitude of i64::MIN (neg TRUE), in decimal digits.
I64Limit(neg) ==
    IF neg THEN <<"9", "2", "2", "3", "3", "7", "2", "0", "3", "6", "8", "5", "4", "7", "7", "5", "8", "0", "8">>
    ELSE <<"9", "2", "2", "3", "3", "7", "2", "0", "3", "6", "8", "5", "4", "7", "7", "5", "8", "0", "7">>

RECURSIVE StripZeros(_)
StripZeros(s) == IF Len(s) > 1 /\ Head(s) = "0" THEN StripZeros(Tail(s)) ELSE s

RECURSIVE LexLeq(_, _)
LexLeq(x, y) ==
    IF x = <<>> THEN TRUE
    ELSE IF to_digit(Head(x)) /= to_digit(Head(y)) THEN to_digit(Head(x)) < to_digit(Head(y))
    ELSE LexLeq(Tail(x), Tail(y))

\* x <= y for two numbers written in decimal digits without leading zeros
MagnitudeLeq(x, y) == Len(x) < Len(y) \/ (Len(x) = Len(y) /\ LexLeq(x, y))

\* str::parse::<i64>: an optional sign and at least one digit, in the range of
\* i64; the number is kept as its sign and its digits.
ParseI64(s) ==
    LET signed == s /= <<>> /\ Head(s) \in {"+", "-"}
        neg == signed /\ Head(s) = "-"
        digits == IF signed THEN Tail(s) ELSE s
    IN  IF /\ digits /= <<>>
           /\ \A i \in 1..Len(digits) : digits[i] \in DecimalDigits
           /\ MagnitudeLeq(StripZeros(digits), I64Limit(neg))
        THEN Some([neg |-> neg, digits |-> StripZeros(digits)])
        ELSE None

\* The number a parsed i64 stands for.
I64Value(n) == IF n.neg THEN 0 - DigitsValue(n.digits, 0) ELSE DigitsValue(n.digits, 0)

UnitMinute == <<"m", "i", "n", "u", "t", "e">>
UnitHour == <<"h", "o", "u", "r">>
UnitDay == <<"d", "a", "y">>
UnitWeek == <<"w", "e", "e", "k">>
UnitMonth == <<"m", "o", "n", "t", "h">>
Plural(u) == Append(u, "s")

MinutesPerHour == 60
MinutesPerDay == 1440

\* The largest |count| for which count * k fits an i64 (k is 7 or 30).
MulLimit(k) ==
    IF k = 7 THEN <<"1", "3", "1", "7", "6", "2", "4", "5", "7", "6", "6", "9", "3", "5", "3", "9", "4", "0", "1">>
    ELSE <<"3", "0", "7", "4", "4", "5", "7", "3", "4", "5", "6", "1", "8", "2", "5", "8", "6", "0">>

\* The largest |count| Duration::minutes, ::hours and ::days take (k is 1), and
\* the largest for which Duration::days takes count * k: a Duration holds at most
\* i64::MAX milliseconds, and the constructors panic beyond it.
CountLimit(unit, k) ==
    CASE unit = UnitMinute -> <<"1", "5", "3", "7", "2", "2", "8", "6", "7", "2", "8", "0", "9", "1", "2">>
      [] unit = UnitHour -> <<"2", "5", "6", "2", "0", "4", "7", "7", "8", "8", "0", "1", "5">>
      [] unit = UnitDay /\ k = 1 -> <<"1", "0", "6", "7", "5", "1", "9", "9", "1", "1", "6", "7">>
      [] unit = UnitDay /\ k = 7 -> <<"1", "5", "2", "5", "0", "2", "8", "4", "4", "5", "2">>
      [] OTHER -> <<"3", "5", "5", "8", "3", "9", "9", "7", "0", "5">>

DurationOk(minutes) == [ok |-> TRUE, minutes |-> minutes, error |-> "", panic |-> FALSE]
DurationErr(kind) == [ok |-> FALSE, minutes |-> 0, error |-> kind, panic |-> FALSE]
\* The thread panics inside the Duration constructor.
DurationPanic == [ok |-> FALSE, minutes |-> 0, error |-> "out of bounds", panic |-> TRUE]
\* count * 7 or count * 30 overflows i64: a panic where overflow is checked (the
\* debug profile), and otherwise a wrapped product that is not count * k, so
\* that in neither case the duration is count * k days.
DurationOverflow == [ok |-> FALSE, minutes |-> 0, error |-> "overflow", panic |-> TRUE]

\* A Duration of n * k units of unit_minutes minutes (the numbers TLC computes
\* with are below 2^31, and so are the durations the model's inputs lead to).
DurationOf(n, unit, k, unit_minutes) ==
    IF MagnitudeLeq(n.digits, CountLimit(unit, k))
    THEN DurationOk((I64Value(n) * k) * unit_minutes)
    ELSE DurationPanic

parse_duration(input) ==
    LET parts == SplitWhitespace(Trim(input), <<>>)
    IN  IF Len(parts) /= 2 THEN DurationErr("Invalid format")
        ELSE LET count == ParseI64(parts[1])
                 unit == to_lowercase(parts[2])
             IN  IF IsNone(count) THEN DurationErr("Invalid number")
                 ELSE LET n == Unwrap(count)
                      IN  CASE unit \in {UnitMinute, Plural(UnitMinute)} ->
                                  DurationOf(n, UnitMinute, 1, 1)
                            [] unit \in {UnitHour, Plural(UnitHour)} ->
                                  DurationOf(n, UnitHour, 1, MinutesPerHour)
                            [] unit \in {UnitDay, Plural(UnitDay)} ->
                                  DurationOf(n, UnitDay, 1, MinutesPerDay)
                            [] unit \in {UnitWeek, Plural(UnitWeek)} ->
                                  IF MagnitudeLeq(n.digits, MulLimit(7))
                                  THEN DurationOf(n, UnitDay, 7, MinutesPerDay)
                                  ELSE DurationOverflow
                            [] unit \in {UnitMonth, Plural(UnitMonth)} ->
                                  IF MagnitudeLeq(n.digits, MulLimit(30))
                                  THEN DurationOf(n, UnitDay, 30, MinutesPerDay)
                                  ELSE DurationOverflow
                            [] OTHER -> DurationErr("Unknown time unit")

\* Result<DateTime>: Utc::now() + duration; panic when parse_duration panics
calculate_return_time(duration_str, t) ==
    LET d == parse_duration(duration_str)
    IN  IF d.ok THEN [ok |-> TRUE, time |-> t + d.minutes, panic |-> FALSE]
        ELSE [ok |-> FALSE, time |-> 0, panic |-> d.panic]

add_reminder(rs, uid, return_time) == Append(rs, [uid |-> uid, return_time |-> return_time])

\* A variant that reports a reminder only after its due time.
get_due_reminders_after(rs, t) ==
    LET Due(r) == r.return_time < t
        due == SelectSeq(rs, Due)
    IN  [i \in 1..Len(due) |-> due[i].uid]

get_due_reminders(rs, t) ==
    LET Due(r) == r.return_time <= t
        due == SelectSeq(rs, Due)
    IN  [i \in 1..Len(due) |-> due[i].uid]

remove_reminder(rs, uid) ==
    LET Keep(r) == r.uid /= uid
    IN  SelectSeq(rs, Keep)

\* ------------------------------------------------------------------------
\* The driver loop's match on the Action (main.rs, run_app).  A transport call
\* is an outcome the mailbox chooses: Ok or Err, and on Ok what it returns.
\* ------------------------------------------------------------------------

\* if selected().unwrap_or(0) >= emails.len() && !emails.is_empty() { select(len - 1) }
ClampCursor(a) ==
    IF UnwrapOr(a.list_state, 0) >= Len(a.emails) /\ a.emails /= <<>>
    THEN [a EXCEPT !.list_state = Some(Len(a.emails) - 1)]
    ELSE a

\* Action::Refresh; fetched is Some(emails) or None for Err
run_refresh(a, fetched) ==
    LET a1 == notify(a, "Refreshing...")
    IN  IF IsSome(fetched)
        THEN notify(set_emails(a1, Unwrap(fetched)), "Refreshed")
        ELSE notify_error(a1, "Error")

\* A variant that switches the folder before the fetch.
run_change_folder_eager(a, folder, fetched) ==
    LET a1 == [notify(a, "Loading") EXCEPT !.current_folder = folder]
    IN  IF IsSome(fetched)
        THEN clear_notification(set_emails(a1, Unwrap(fetched)))
        ELSE notify_error(a1, "Error")

\* Action::ChangeFolder(folder)
run_change_folder(a, folder, fetched) ==
    LET a1 == notify(a, "Loading")
    IN  IF IsSome(fetched)
        THEN clear_notification(set_emails([a1 EXCEPT !.current_folder = folder],
                                           Unwrap(fetched)))
        ELSE notify_error(a1, "Error")

\* A variant that sends whatever the To field holds.
run_send_email_unchecked(a, sent) ==
    IF sent
    THEN [notify(a, "Sent") EXCEPT !.view = "Inbox", !.compose = ComposeStateDefault]
    ELSE notify_error(notify(a, "Sending..."), "Send failed")

\* Action::SendEmail; sent is whether send_email returns Ok
run_send_email(a, sent) ==
    IF a.compose.to = <<>> THEN notify_error(a, "'To' field is empty")
    ELSE IF sent
         THEN [notify(a, "Sent") EXCEPT !.view = "Inbox", !.compose = ComposeStateDefault]
         ELSE notify_error(notify(a, "Sending..."), "Send failed")

\* A variant that returns to the Inbox whether or not the draft was saved.
run_save_draft_then_leave(a, saved) ==
    IF a.compose.to = <<>> /\ a.compose.cc = <<>>
    THEN notify_error(a, "'To' or 'Cc' field is required")
    ELSE [(IF saved THEN notify(a, "Draft saved")
                    ELSE notify_error(notify(a, "Saving draft..."), "Draft failed"))
            EXCEPT !.view = "Inbox", !.compose = ComposeStateDefault]

\* Action::SaveDraft; saved is whether save_draft returns Ok
run_save_draft(a, saved) ==
    IF a.compose.to = <<>> /\ a.compose.cc = <<>>
    THEN notify_error(a, "'To' or 'Cc' field is required")
    ELSE IF saved
         THEN [notify(a, "Draft saved") EXCEPT !.view = "Inbox",
                                               !.compose = ComposeStateDefault]
         ELSE notify_error(notify(a, "Saving draft..."), "Draft failed")

\* A variant that always acts on the message under the cursor.
TargetUidsCursorOnly(a) ==
    IF IsSome(selected_email(a)) THEN {Unwrap(selected_email(a)).uid} ELSE {}

\* The uids an ArchiveEmail or DeleteEmail acts on.
TargetUids(a) ==
    IF a.selected = {}
    THEN (IF IsSome(selected_email(a)) THEN {Unwrap(selected_email(a)).uid} ELSE {})
    ELSE get_selected_uids(a)

\* Action::ArchiveEmail and Action::DeleteEmail (the two arms differ in the
\* transport call and the message); the messages leave the list whether or not
\* the transport calls succeed.
run_remove_emails(a, done) ==
    LET uids == TargetUids(a)
        Keep(e) == e.uid \notin uids
    IN  IF uids /= {}
        THEN notify(ClampCursor(clear_selection([a EXCEPT !.emails = Retain(@, Keep)])),
                    done)
        ELSE a

run_archive_email(a) == run_remove_emails(a, "Archived")
run_delete_email(a) == run_remove_emails(a, "Deleted")

\* A variant that flags the message only when the transport call succeeded.
run_mark_as_read_if_marked(a, uid, marked) ==
    IF marked /\ IsSome(a.list_state) /\ IsSome(Get(a.emails, Unwrap(a.list_state)))
    THEN [a EXCEPT !.emails[Unwrap(a.list_state) + 1].seen = TRUE]
    ELSE a

\* Action::MarkAsRead(uid): the message under the cursor is flagged; marked is
\* whether mark_as_read returned Ok, which the arm discards (`let _ =`).
run_mark_as_read(a, uid, marked) ==
    IF IsSome(a.list_state) /\ IsSome(Get(a.emails, Unwrap(a.list_state)))
    THEN [a EXCEPT !.emails[Unwrap(a.list_state) + 1].seen = TRUE]
    ELSE a

\* set_reply_chain_from_thread is not in ui/app.rs as given: the reply chain
\* becomes the thread's messages, in the thread's order.
set_reply_chain_from_thread(a, emails) ==
    [a EXCEPT !.compose.reply_chain = [i \in 1..Len(emails) |-> ChainEntry(emails[i])]]

\* Whether Action::FetchThread calls fetch_thread for the message under the cursor.
FetchThreadCalls(a) ==
    /\ IsSome(selected_email(a))
    /\ \/ Unwrap(selected_email(a)).references /= <<>>
       \/ IsSome(Unwrap(selected_email(a)).in_reply_to)

\* The App after Action::FetchThread has made the fetch_thread call t.
AfterThread(a, t) ==
    IF t.result.ok THEN set_reply_chain_from_thread(a, t.result.emails) ELSE a

\* Action::FetchThread: the App it leaves and what it did for the message under
\* the cursor (None when there is no such message).
run_fetch_thread(a, srv) ==
    IF FetchThreadCalls(a)
    THEN LET t == fetch_thread(Unwrap(selected_email(a)), srv)
         IN  [app |-> AfterThread(a, t), thread |-> Some(t)]
    ELSE [app |-> a,
          thread |-> IF IsSome(selected_email(a))
                     THEN Some(NotCalled(Unwrap(selected_email(a))))
                     ELSE None]

\* Action::RemindEmail(uid, duration_str): the App and the reminder store it
\* leaves; saved is whether reminders.save() returns Ok.
run_remind_email(a, rs, uid, duration_str, t, saved) ==
    LET return_time == calculate_return_time(duration_str, t)
        Keep(e) == e.uid /= uid
    IN  IF return_time.panic
        THEN [reminders |-> rs, app |-> [a EXCEPT !.panicked = TRUE]]
        ELSE IF return_time.ok
        THEN [ reminders |-> add_reminder(rs, uid, return_time.time),
               app |-> IF ~saved THEN notify_error(a, "Failed to save reminder")
                       ELSE ClampCursor([notify(a, "Email reminded")
                                            EXCEPT !.emails = Retain(@, Keep)]) ]
        ELSE [reminders |-> rs, app |-> notify_error(a, "Invalid time format")]

\* ------------------------------------------------------------------------
\* The state machine: one step per key event (handle_key_event) and one per
\* Action matched by run_app
\* ------------------------------------------------------------------------

\* terminal.size()?.height.saturating_sub(8)
ViewHeight == 16

TotalLen(c) == Len(c.to) + Len(c.cc) + Len(c.subject) + Len(c.body)

IsPrefix(p, s) == Len(p) <= Len(s) /\ SubSeq(s, 1, Len(p)) = p

\* What is typed into the Remind view: one of these texts, letter by letter.
RemindTexts == { <<"1", " ", "h", "o", "u", "r">>, <<"b", "a", "d">> }

\* The bounds on what the user types: text grows only up to the bounds.
WithinBounds(a, a2) ==
    /\ (a.view = "Compose" /\ TotalLen(a2.compose) > TotalLen(a.compose))
            => TotalLen(a2.compose) <= MaxChars
    /\ UnwrapOr(a2.compose.vim.count, 0) <= MaxCount
    /\ Len(a2.search.query) <= MaxQuery
    /\ Len(a2.command.input) <= MaxQuery
    /\ a2.scroll_offset <= ViewHeight
    /\ \E t \in RemindTexts : IsPrefix(a2.remind.input, t)

\* run_app: event::read() and handle_key_event, when the previous Action has
\* been matched and the loop has not been left.
\* A variant that reads the next key while an Action is still to be handled.
KeyEventInterleaved(key) ==
    /\ ~app.should_quit
    /\ ~app.panicked
    /\ LET r == handle_key_event(app, key, ViewHeight)
       IN  /\ WithinBounds(app, r.app)
           /\ (r.action.type = "RemindEmail" => Len(reminders) < MaxReminders)
           /\ app' = r.app
           /\ action' = r.action
    /\ UNCHANGED <<reminders, now, thread>>

KeyEvent(key) ==
    /\ action = ActionNone
    /\ ~app.should_quit
    /\ ~app.panicked
    /\ LET r == handle_key_event(app, key, ViewHeight)
       IN  /\ WithinBounds(app, r.app)
           /\ (r.action.type = "RemindEmail" => Len(reminders) < MaxReminders)
           /\ app' = r.app
           /\ action' = r.action
    /\ UNCHANGED <<reminders, now, thread>>

InboxKey(keys) == app.view = "Inbox" /\ \E key \in keys : KeyEvent(key)
EmailViewKey(keys) == app.view = "EmailView" /\ \E key \in keys : KeyEvent(key)
SearchKey(keys) == app.view = "Search" /\ \E key \in keys : KeyEvent(key)
HelpKey(keys) == app.view = "Help" /\ \E key \in keys : KeyEvent(key)
CommandKey(keys) == app.view = "Command" /\ \E key \in keys : KeyEvent(key)
RemindKey(keys) == app.view = "Remind" /\ \E key \in keys : KeyEvent(key)
ComposeInsertKey(keys) ==
    /\ app.view = "Compose" /\ app.compose.edit_mode = "Insert"
    /\ \E key \in keys : KeyEvent(key)
ComposeNormalKey(keys) ==
    /\ app.view = "Compose" /\ app.compose.edit_mode = "Normal"
    /\ \E key \in keys : KeyEvent(key)

\* The message of the mailbox with a given uid: message 2 answers message 1,
\* and only message 1 has been read.
MailboxEmail(uid) ==
    CASE uid = 1 -> Email(1, <<"a">>, <<"b">>, Some(1), TRUE, Some("a"), None, <<>>)
      [] uid = 2 -> Email(2, <<"b">>, <<>>, Some(2), FALSE, Some("b"), Some("a"), <<"a">>)
      [] OTHER -> Email(uid, <<"a">>, <<>>, Some(uid), FALSE, None, None, <<>>)

\* What fetch_emails may return: messages of distinct uids, the most recent
\* (largest uid) first.
RECURSIVE ListOf(_, _)
ListOf(uids, u) ==
    IF u = 0 THEN <<>>
    ELSE (IF u \in uids THEN <<MailboxEmail(u)>> ELSE <<>>) \o ListOf(uids, u - 1)

ServerLists == { ListOf(uids, MaxUid) : uids \in SUBSET (1..MaxUid) }

Fetched == {None} \cup {Some(l) : l \in ServerLists}

DriveRefresh ==
    /\ action.type = "Refresh"
    /\ \E fetched \in Fetched : app' = run_refresh(app, fetched)
    /\ action' = ActionNone
    /\ UNCHANGED <<reminders, now, thread>>

DriveChangeFolder ==
    /\ action.type = "ChangeFolder"
    /\ \E fetched \in Fetched : app' = run_change_folder(app, action.folder, fetched)
    /\ action' = ActionNone
    /\ UNCHANGED <<reminders, now, thread>>

DriveSendEmail ==
    /\ action.type = "SendEmail"
    /\ \E sent \in BOOLEAN : app' = run_send_email(app, sent)
    /\ action' = ActionNone
    /\ UNCHANGED <<reminders, now, thread>>

DriveSaveDraft ==
    /\ action.type = "SaveDraft"
    /\ \E saved \in BOOLEAN : app' = run_save_draft(app, saved)
    /\ action' = ActionNone
    /\ UNCHANGED <<reminders, now, thread>>

DriveArchiveEmail ==
    /\ action.type = "ArchiveEmail"
    /\ app' = run_archive_email(app)
    /\ action' = ActionNone
    /\ UNCHANGED <<reminders, now, thread>>

DriveDeleteEmail ==
    /\ action.type = "DeleteEmail"
    /\ app' = run_delete_email(app)
    /\ action' = ActionNone
    /\ UNCHANGED <<reminders, now, thread>>

DriveMarkAsRead ==
    /\ action.type = "MarkAsRead"
    /\ \E marked \in BOOLEAN : app' = run_mark_as_read(app, action.uid, marked)
    /\ action' = ActionNone
    /\ UNCHANGED <<reminders, now, thread>>

DriveRemindEmail ==
    /\ action.type = "RemindEmail"
    /\ \E saved \in BOOLEAN :
          LET r == run_remind_email(app, reminders, action.uid, action.text, now, saved)
          IN  /\ app' = r.app
              /\ reminders' = r.reminders
    /\ action' = ActionNone
    /\ UNCHANGED <<now, thread>>

\* What the mailbox may answer to a thread search for the message e: the search
\* and the fetch succeed or fail, and the candidates found are e itself or
\* another message of the conversation, each of which may fail to parse (None).
OtherMessage == Email(9, <<"b">>, <<>>, None, TRUE, Some("z"), None, <<>>)

RECURSIVE SeqsUpTo(_, _)
\* The sequences over S of length at most n.
SeqsUpTo(S, n) ==
    IF n = 0 THEN {<<>>}
    ELSE LET shorter == SeqsUpTo(S, n - 1)
         IN  shorter \cup {Append(q, x) : q \in shorter, x \in S}

ThreadAnswers(e) ==
    [ search_ok : BOOLEAN, fetch_ok : BOOLEAN,
      cands : SeqsUpTo({None, Some(e), Some(OtherMessage)}, MaxCands) ]

DriveFetchThread ==
    /\ action.type = "FetchThread"
    /\ \E srv \in ThreadAnswers(UnwrapOr(selected_email(app), OtherMessage)) :
          LET r == run_fetch_thread(app, srv)
          IN  app' = r.app /\ thread' = r.thread
    /\ action' = ActionNone
    /\ UNCHANGED <<reminders, now>>

\* ------------------------------------------------------------------------
\* SpecCompose: the compose editor.  The session starts on an empty inbox; c
\* opens a fresh ComposeState, and every key of the editor may follow.
\* ------------------------------------------------------------------------

\* The characters typed in Insert mode: a letter, a space, a two-byte letter.
TextChars == {"a", " ", "é"}

InsertKeys ==
    {Char(c) : c \in TextChars}
        \cup {Key("Esc"), Key("Tab"), Key("Backspace"), Key("Enter"), Key("Left"),
              Key("Right")}

CountDigits == {d \in Digits : to_digit(d) <= MaxCount}

NormalKeys ==
    {Char(c) : c \in CountDigits \cup {"0", "d", "c", "i", "a", "A", "I", "o", "h", "l",
                                      "w", "b", "e", "$", "x", "j", "k", "q", "z"}}
        \cup {Key("Esc")}

InitCompose ==
    /\ app = set_emails(AppNew, <<>>)
    /\ reminders = <<>>
    /\ action = ActionNone
    /\ now = 0
    /\ thread = None

NextCompose ==
    \/ InboxKey({Char("c")})
    \/ ComposeInsertKey(InsertKeys)
    \/ ComposeNormalKey(NormalKeys)
    \/ DriveSaveDraft

SpecCompose == InitCompose /\ [][NextCompose]_vars

\* C1: in the Compose view the cursor position is between 0 and the number of
\* characters of the active field, inclusive.
CursorWithinField ==
    app.view = "Compose"
        => /\ app.compose.cursor_pos >= 0
           /\ app.compose.cursor_pos <= CharCount(get_current_field(app))

\* C2: in the Compose view, for every character c, insert_char(c) followed by
\* delete_char_before leaves the active field and the cursor as they were.
InsertThenDeleteBeforeRestores ==
    (app.view = "Compose" /\ ~app.panicked)
        => \A c \in TextChars \cup {"\n"} :
              LET after == delete_char_before(insert_char(app, c))
              IN  /\ get_current_field(after) = get_current_field(app)
                  /\ after.compose.cursor_pos = app.compose.cursor_pos

\* ------------------------------------------------------------------------
\* SpecThread: thread reconstruction.  The inbox holds one message, with any
\* reference headers; either fetch_thread is applied to it, against any answer
\* of the mailbox, or the message is opened and replied to.
\* ------------------------------------------------------------------------

MessageIds == {"a", "b", "c", "d"}
OptionOf(S) == {None} \cup {Some(x) : x \in S}

ThreadEmails ==
    { Email(1, <<"a">>, <<>>, Some(1), TRUE, mid, irt, refs) :
        mid \in OptionOf(MessageIds), irt \in OptionOf(MessageIds),
        refs \in SeqsUpTo(MessageIds, MaxRefs) }

InitThread ==
    /\ \E e \in ThreadEmails : app = set_emails(AppNew, <<e>>)
    /\ reminders = <<>>
    /\ action = ActionNone
    /\ now = 0
    /\ thread = None

\* ImapClient::fetch_thread applied to the message
CallFetchThread ==
    /\ app.view = "Inbox" /\ thread = None
    /\ \E srv \in ThreadAnswers(app.emails[1]) :
          thread' = Some(fetch_thread(app.emails[1], srv))
    /\ UNCHANGED <<app, reminders, action, now>>

NextThread ==
    \/ CallFetchThread
    \/ thread = None /\ InboxKey({Key("Enter")})
    \/ EmailViewKey({Char("r"), Char("a")})
    \/ DriveFetchThread

SpecThread == InitThread /\ [][NextThread]_vars

\* C5: a fetch_thread call that returns Ok returns at least one message.
ThreadNeverEmpty ==
    (IsSome(thread) /\ Unwrap(thread).called /\ Unwrap(thread).result.ok)
        => Unwrap(thread).result.emails /= <<>>

\* The ids of the Message-ID predicates of a query.
QueryIds(q) ==
    {q[i + 2] : i \in {j \in 1..(Len(q) - 2) : q[j] = "HEADER" /\ q[j + 1] = "Message-ID"}}

\* references \cup {in_reply_to} \cup {message_id}, those that are present
HeaderIds(e) == Elems(e.references) \cup Elems(e.in_reply_to) \cup Elems(e.message_id)

\* C6: the query of a fetch_thread call has a Message-ID predicate for exactly
\* the ids of the message's references, in_reply_to and message_id; no query is
\* built only when the message has none of them.
QueryCoversExactlyIds ==
    (IsSome(thread) /\ Unwrap(thread).called)
        => LET t == Unwrap(thread)
           IN  IF HeaderIds(t.email) = {}
               THEN t.query = None
               ELSE IsSome(t.query) /\ QueryIds(Unwrap(t.query)) = HeaderIds(t.email)

\* references [a, b], in_reply_to c, message_id d: the query covers {a, b, c, d}
QueryCoversABCD ==
    /\ IsSome(thread) /\ Unwrap(thread).called
    /\ Unwrap(thread).email.references = <<"a", "b">>
    /\ Unwrap(thread).email.in_reply_to = Some("c")
    /\ Unwrap(thread).email.message_id = Some("d")
    /\ QueryIds(Unwrap(Unwrap(thread).query)) = {"a", "b", "c", "d"}

NoRefHeaders(e) == e.references = <<>> /\ IsNone(e.in_reply_to)

\* C7: for a message with no reference headers a fetch_thread call
\* that returns Ok returns that message alone, and after Action::FetchThread the
\* reply chain is the one quoted message.
NoRefHeadersSingleThread ==
    (IsSome(thread) /\ NoRefHeaders(Unwrap(thread).email))
        => LET t == Unwrap(thread)
           IN  /\ (t.called /\ t.result.ok) => t.result.emails = <<t.email>>
               /\ ~t.called => app.compose.reply_chain = <<ChainEntry(t.email)>>

\* ------------------------------------------------------------------------
\* Spec: the message list.  Navigation, the pending 'g', search and its filter,
\* multi-selection, archive, snooze, refresh and folder change.
\* ------------------------------------------------------------------------

InboxKeys ==
    { Char("j"), Char("k"), Char("g"), Char("G"), Char("e"), Char("R"),
      Char("/"), Char("q") }
SearchKeys == { Char("a"), Char("b"), Key("Backspace"), Key("Enter"), Key("Esc"), Key("Down") }

Init ==
    /\ \E emails \in ServerLists : app = set_emails(AppNew, emails)
    /\ reminders = <<>>
    /\ action = ActionNone
    /\ now = 0
    /\ thread = None

Next ==
    \/ InboxKey(InboxKeys)
    \/ SearchKey(SearchKeys)
    \/ DriveRefresh
    \/ DriveChangeFolder
    \/ DriveArchiveEmail

Spec == Init /\ [][Next]_vars

\* C3: every element of search.results is an index into the current message list.
SearchResultsValid ==
    \A i \in Elems(app.search.results) : i >= 0 /\ i < Len(app.emails)

\* The cursor of a2 is the cursor of a when a shows nothing, and otherwise one of
\* the indices a shows.
WithinVisible(a, a2) ==
    IF get_visible_indices(a) = <<>>
    THEN a2.list_state = a.list_state
    ELSE IsSome(a2.list_state) /\ Unwrap(a2.list_state) \in Elems(get_visible_indices(a))

\* C8: select_next, select_previous, select_first and select_last each leave the
\* cursor where it is (nothing visible) or on a visible index, and while the
\* filter is active in the Inbox the cursor is on one of search.results.
HighlightAmongFiltered ==
    /\ WithinVisible(app, select_next(app))
    /\ WithinVisible(app, select_previous(app))
    /\ WithinVisible(app, select_first(app))
    /\ WithinVisible(app, select_last(app))
    /\ (app.view = "Inbox" /\ app.search.active /\ action = ActionNone)
           => /\ IsSome(app.list_state)
              /\ Unwrap(app.list_state) \in Elems(app.search.results)

RECURSIVE Presses(_, _, _)
\* The App after the key has been pressed n times.
Presses(a, key, n) ==
    IF n = 0 THEN a ELSE Presses(handle_key_event(a, key, ViewHeight).app, key, n - 1)

\* C9: in the Inbox with n > 0 visible indices, n presses of next put the cursor
\* on the last visible index and further presses leave it there; n presses of
\* previous put it on the first visible index and further presses leave it there.
NextStopsAtLast ==
    (app.view = "Inbox" /\ action = ActionNone /\ get_visible_indices(app) /= <<>>)
        => LET v == get_visible_indices(app)
               n == Len(v)
           IN  \A k \in n..(n + 2) :
                  /\ Presses(app, Char("j"), k).list_state = Some(v[n])
                  /\ Presses(app, Char("k"), k).list_state = Some(v[1])

\* The filter shows two or more messages and the cursor has gone from the first
\* to the last of them.
FilteredCursorAtLast ==
    /\ app.view = "Inbox" /\ action = ActionNone /\ app.search.active
    /\ Len(app.search.results) >= 2
    /\ app.list_state = Some(app.search.results[Len(app.search.results)])
    /\ Presses(app, Char("j"), 1).list_state = app.list_state

\* The keys that are no follow-up of 'g'.
NoFollowUpKeys == { key \in InboxKeys : key.c \notin {"g", "i", "t", "d", "e", "a"} }

\* C10: in the Inbox with 'g' pending, a key that is no follow-up of 'g' clears
\* the pending token, changes nothing else and returns Action::None.
PendingGOtherKeyNoEffect ==
    (app.view = "Inbox" /\ app.pending_command = Some("g") /\ action = ActionNone)
        => \A key \in NoFollowUpKeys :
              LET r == handle_key_event(app, key, ViewHeight)
              IN  /\ r.action = ActionNone
                  /\ r.app = [app EXCEPT !.pending_command = None,
                                         !.notification = r.app.notification]

\* ------------------------------------------------------------------------
\* SpecSelect: multi-selection with archive, snooze and refresh.
\* ------------------------------------------------------------------------

SelectKeys == { Char("j"), Char("x"), Char("e"), Char("d"), Char("h"), Char("R") }
RemindKeys ==
    { Char(c) : c \in UNION {Elems(t) : t \in RemindTexts} } \cup { Key("Enter"), Key("Esc") }

NextSelect ==
    \/ InboxKey(SelectKeys)
    \/ RemindKey(RemindKeys)
    \/ DriveRefresh
    \/ DriveArchiveEmail
    \/ DriveDeleteEmail
    \/ DriveRemindEmail

SpecSelect == Init /\ [][NextSelect]_vars

\* C4: every uid of the multi-select set is the uid of a message of the list.
SelectedAreListed ==
    app.selected \subseteq {app.emails[i].uid : i \in 1..Len(app.emails)}

\* The table of g sequences that change the folder.
GTable ==
    { <<"i", "Inbox">>, <<"t", "Sent">>, <<"d", "Drafts">>, <<"e", "Trash">>,
      <<"a", "Archive">> }

\* C11: in the Inbox 'g' sets the pending command; with 'g' pending, gi, gt, gd,
\* ge, ga clear the search filter and return ChangeFolder of Inbox, Sent, Drafts,
\* Trash, Archive, gg puts the cursor on the first visible item and Esc changes
\* nothing, both with Action::None; the pending command is None after each.
PendingGSequences ==
    (app.view = "Inbox" /\ action = ActionNone)
        => /\ IsNone(app.pending_command)
                => LET r == handle_key_event(app, Char("g"), ViewHeight)
                   IN  r.app.pending_command = Some("g") /\ r.action = ActionNone
           /\ app.pending_command = Some("g")
                => /\ \A row \in GTable :
                         LET r == handle_key_event(app, Char(row[1]), ViewHeight)
                         IN  /\ r.action = ActChangeFolder(row[2])
                             /\ r.app = [app EXCEPT !.pending_command = None,
                                                    !.notification = None,
                                                    !.search.active = FALSE,
                                                    !.search.query = <<>>,
                                                    !.search.results = <<>>]
                   /\ LET r == handle_key_event(app, Char("g"), ViewHeight)
                          v == get_visible_indices(app)
                      IN  /\ r.action = ActionNone
                          /\ r.app = [app EXCEPT !.pending_command = None,
                                                 !.notification = None,
                                                 !.list_state =
                                                     IF v = <<>> THEN @ ELSE Some(v[1])]
                   /\ LET r == handle_key_event(app, Key("Esc"), ViewHeight)
                      IN  /\ r.action = ActionNone
                          /\ r.app = [app EXCEPT !.pending_command = None,
                                                 !.notification = None]
                   /\ \A key \in InboxKeys :
                         handle_key_event(app, key, ViewHeight).app.pending_command = None

\* ge has been pressed with the filter active: ChangeFolder(Trash) is returned
\* and the filter is cleared.
PendingGTrashRequested ==
    /\ action = ActChangeFolder("Trash")
    /\ app.view = "Inbox" /\ IsNone(app.pending_command)
    /\ ~app.search.active /\ app.search.results = <<>> /\ app.emails /= <<>>

\* ------------------------------------------------------------------------
\* SpecNotify: notifications.  The driver's notifications (refresh, archive,
\* draft save) and the command palette's, and the keys pressed after them.
\* ------------------------------------------------------------------------

NotifyInboxKeys == { Char("j"), Char("e"), Char("R"), Char(":"), Char("c") }
CommandKeys == { Char("r"), Char("x"), Key("Enter"), Key("Esc"), Key("Backspace") }
NotifyInsertKeys == { Char("a"), Key("Tab"), Key("Esc"), Ctrl("s") }
NotifyNormalKeys == { Char("i"), Char("2"), Char("d"), Key("Esc") }
NotifyKeys == NotifyInboxKeys \cup CommandKeys \cup NotifyInsertKeys \cup NotifyNormalKeys

NextNotify ==
    \/ InboxKey(NotifyInboxKeys)
    \/ CommandKey(CommandKeys)
    \/ ComposeInsertKey(NotifyInsertKeys)
    \/ ComposeNormalKey(NotifyNormalKeys)
    \/ DriveRefresh
    \/ DriveArchiveEmail
    \/ DriveSendEmail
    \/ DriveSaveDraft

SpecNotify == Init /\ [][NextNotify]_vars

\* C12: what handle_key_event leaves, the notification included, is what it
\* leaves when no notification was active before the event: a notification is
\* present afterwards only if the event set it.
KeyEventClearsNotification ==
    action = ActionNone
        => \A key \in NotifyKeys :
              handle_key_event(app, key, ViewHeight)
                  = handle_key_event([app EXCEPT !.notification = None], key, ViewHeight)

\* An unknown command has left its error in the Inbox, and the next key clears it.
UnknownCommandNotified ==
    /\ app.view = "Inbox" /\ action = ActionNone
    /\ app.notification = Some([message |-> "Unknown command", is_error |-> TRUE])
    /\ IsNone(handle_key_event(app, Char("j"), ViewHeight).app.notification)

\* ------------------------------------------------------------------------
\* SpecRead: opening messages.  Inbox, EmailView and Help, and MarkAsRead.
\* ------------------------------------------------------------------------

OpenKeys == { Key("Enter"), Char("l") }

NextRead ==
    \/ InboxKey({Char("j")} \cup OpenKeys)
    \/ EmailViewKey({Char("j"), Char(" "), Char("?"), Key("Esc")})
    \/ HelpKey({Key("Esc")})
    \/ DriveMarkAsRead

SpecRead == Init /\ [][NextRead]_vars

\* C13: Enter or l on the message under the cursor sets the view to EmailView
\* and scroll_offset to 0; if the message is unread the Action is MarkAsRead of
\* its uid, and after the driver has handled it, whatever the transport call
\* returned, that message's read flag is true and nothing else has changed; if
\* it is read the Action is None and the list is unchanged.
OpenMarksAsRead ==
    (app.view = "Inbox" /\ action = ActionNone /\ IsSome(selected_email(app)))
        => \A key \in OpenKeys :
              LET e == Unwrap(selected_email(app))
                  r == handle_key_event(app, key, ViewHeight)
              IN  /\ r.app = [app EXCEPT !.view = "EmailView", !.scroll_offset = 0,
                                         !.notification = None]
                  /\ IF e.seen
                     THEN r.action = ActionNone
                     ELSE /\ r.action = ActMarkAsRead(e.uid)
                          /\ \A marked \in BOOLEAN :
                                LET a2 == run_mark_as_read(r.app, e.uid, marked)
                                IN  /\ Len(a2.emails) = Len(app.emails)
                                    /\ \A i \in 1..Len(app.emails) :
                                          a2.emails[i] =
                                              IF app.emails[i].uid = e.uid
                                              THEN [app.emails[i] EXCEPT !.seen = TRUE]
                                              ELSE app.emails[i]
                                    /\ a2 = [r.app EXCEPT !.emails = a2.emails]

\* Message 3, unread in the mailbox, has been opened and the driver has handled
\* its MarkAsRead.
OpenedUnread ==
    /\ app.view = "EmailView" /\ action = ActionNone
    /\ IsSome(selected_email(app))
    /\ Unwrap(selected_email(app)).uid = 3 /\ Unwrap(selected_email(app)).seen

\* ------------------------------------------------------------------------
\* SpecReply: reply, reply-all and forward from the EmailView, and the way back
\* to the Inbox (Esc to Normal mode, then q) with the compose state left behind.
\* ------------------------------------------------------------------------

NextReply ==
    \/ InboxKey({Char("j"), Key("Enter")})
    \/ EmailViewKey({Char("r"), Char("a"), Char("f"), Key("Esc")})
    \/ ComposeInsertKey({Key("Esc")})
    \/ ComposeNormalKey({Char("q")})
    \/ DriveMarkAsRead
    \/ DriveFetchThread

SpecReply == Init /\ [][NextReply]_vars

\* A ComposeState that is the default one except in the fields the reply and
\* the forward set: the listed ones are given, the others (subject, active field,
\* edit mode, cursor) are taken from c.
FreshCompose(c, to, mode, chain, body) ==
    [ComposeStateDefault EXCEPT !.to = to, !.mode = mode, !.reply_chain = chain,
                                !.body = body, !.subject = c.subject,
                                !.active_field = c.active_field,
                                !.edit_mode = c.edit_mode, !.cursor_pos = c.cursor_pos]

\* C14: start_reply makes the view Compose with a fresh ComposeState whose To is
\* the sender's address, whose mode is Reply or ReplyAll and whose reply chain is
\* the one replied-to message; start_forward makes the view Compose with a fresh
\* ComposeState with no recipients, mode Forward and the body banner, sender,
\* subject, body; with no message under the cursor both change nothing; r, a and
\* f in the EmailView start them.
ReplyForwardFresh ==
    action = ActionNone
        => /\ IF IsSome(selected_email(app))
              THEN LET e == Unwrap(selected_email(app))
                       fwd == start_forward(app)
                   IN  /\ \A reply_all \in BOOLEAN :
                              LET re == start_reply(app, reply_all)
                              IN  re = [app EXCEPT
                                          !.view = "Compose",
                                          !.compose =
                                              FreshCompose(re.compose, e.from_address,
                                                  IF reply_all THEN "ReplyAll" ELSE "Reply",
                                                  <<[from |-> e.from, date |-> e.date,
                                                     body |-> e.body]>>,
                                                  <<>>)]
                       /\ fwd = [app EXCEPT
                                   !.view = "Compose",
                                   !.compose =
                                       FreshCompose(fwd.compose, <<>>, "Forward", <<>>,
                                           FwdBanner \o e.from \o FwdSubject \o e.subject
                                               \o <<"\n", "\n">> \o e.body)]
              ELSE /\ \A reply_all \in BOOLEAN : start_reply(app, reply_all) = app
                   /\ start_forward(app) = app
           /\ app.view = "EmailView"
                => LET a == [app EXCEPT !.notification = None]
                   IN  /\ handle_key_event(app, Char("r"), ViewHeight).app = start_reply(a, FALSE)
                       /\ handle_key_event(app, Char("a"), ViewHeight).app = start_reply(a, TRUE)
                       /\ handle_key_event(app, Char("f"), ViewHeight).app = start_forward(a)

\* A forward has been started.
ForwardStarted ==
    /\ app.view = "Compose" /\ action = ActionNone
    /\ app.compose.mode = "Forward" /\ app.compose.to = <<>>
    /\ app.compose.body /= <<>> /\ app.compose.reply_chain = <<>>

\* C15: a fresh compose session starts in Insert mode; a session started by
\* reply, reply-all or forward starts in Insert mode with Body the active field.
ComposeStartsInInsert ==
    action = ActionNone
        => /\ app.view = "Inbox"
                => handle_key_event(app, Char("c"), ViewHeight).app.compose.edit_mode = "Insert"
           /\ IsSome(selected_email(app))
                => \A started \in {start_reply(app, FALSE), start_reply(app, TRUE),
                                   start_forward(app)} :
                      /\ started.compose.edit_mode = "Insert"
                      /\ started.compose.active_field = "Body"

\* C16: in Compose Normal mode with no pending operator and no pending count,
\* Esc with To, Cc, Subject and Body all empty sets the view to Inbox with Action
\* None, and with any of them non-empty returns SaveDraft with the view still
\* Compose; the SaveDraft arm of the driver sets the view to Inbox and resets the
\* ComposeState exactly when save_draft was called and returned Ok, and leaves
\* both as they are otherwise.
EscLeavesOrSavesDraft ==
    /\ ( /\ action = ActionNone /\ app.view = "Compose"
         /\ app.compose.edit_mode = "Normal"
         /\ app.compose.vim.operator = "None" /\ app.compose.vim.count = None )
         => LET r == handle_key_event(app, Key("Esc"), ViewHeight)
                c == app.compose
            IN  IF c.to = <<>> /\ c.cc = <<>> /\ c.subject = <<>> /\ c.body = <<>>
                THEN r = [app |-> [app EXCEPT !.view = "Inbox", !.notification = None],
                          action |-> ActionNone]
                ELSE r = [app |-> [app EXCEPT !.notification = None],
                          action |-> [ActionNone EXCEPT !.type = "SaveDraft"]]
    /\ action.type = "SaveDraft"
         => /\ app.view = "Compose"
            /\ \A saved \in BOOLEAN :
                  LET b == run_save_draft(app, saved)
                  IN  IF saved /\ ~(app.compose.to = <<>> /\ app.compose.cc = <<>>)
                      THEN b.view = "Inbox" /\ b.compose = ComposeStateDefault
                      ELSE b.view = "Compose" /\ b.compose = app.compose

\* The driver has saved a draft and returned to the Inbox.
DraftSavedBackInInbox ==
    /\ app.view = "Inbox" /\ action = ActionNone
    /\ app.notification = Some([message |-> "Draft saved", is_error |-> FALSE])
    /\ app.compose = ComposeStateDefault

\* The search of a2 is a recomputation for the given query: its results are the
\* indices of the messages of a2 whose text has the query's characters in order
\* (all of them for the empty query), ascending, and its highlighted result is 0.
Recomputed(a2, query) ==
    LET n == Len(a2.emails)
        res == a2.search.results
        matching == { i \in 0..(n - 1) :
                        query = <<>>
                          \/ IsSubsequence(query, a2.emails[i + 1].from \o <<" ">>
                                                    \o a2.emails[i + 1].subject \o <<" ">>
                                                    \o a2.emails[i + 1].body) }
    IN  /\ a2.search.query = query
        /\ Elems(res) = matching
        /\ \A i, j \in 1..Len(res) : i < j => res[i] < res[j]
        /\ query = <<>> => res = [i \in 1..n |-> i - 1]
        /\ matching = {} => res = <<>>
        /\ a2.search.selected = 0

\* C17: a character typed into the query, a Backspace, and '/' in the Inbox each
\* leave search.results the ascending list of the indices of the messages that
\* match the new query (every index for the empty query, none when nothing
\* matches) and search.selected 0.
SearchRecomputedOnChange ==
    action = ActionNone
        => /\ app.view = "Search"
                => /\ \A c \in {"a", "b"} :
                          Recomputed(handle_key_event(app, Char(c), ViewHeight).app,
                                     Append(app.search.query, c))
                   /\ Recomputed(handle_key_event(app, Key("Backspace"), ViewHeight).app,
                                 IF app.search.query = <<>> THEN <<>>
                                 ELSE SubSeq(app.search.query, 1, Len(app.search.query) - 1))
           /\ (app.view = "Inbox" /\ app.pending_command = None)
                => LET r == handle_key_event(app, Char("/"), ViewHeight).app
                   IN  r.view = "Search" /\ Recomputed(r, <<>>)

\* A query that matches the first and the last of three messages, just typed.
SearchMatchesSome ==
    /\ app.view = "Search" /\ action = ActionNone
    /\ app.search.query = <<"a">> /\ Len(app.emails) = 3
    /\ app.search.results = <<0, 2>> /\ app.search.selected = 0

\* The uids of the multi-select set when it is not empty, and otherwise the uid
\* of the message under the cursor (no uid without one).
Targeted ==
    IF app.selected /= {} THEN app.selected
    ELSE IF IsSome(app.list_state) /\ Unwrap(app.list_state) < Len(app.emails)
         THEN {app.emails[Unwrap(app.list_state) + 1].uid}
         ELSE {}

\* The messages of the list that are not targeted, in the list's order.
NotTargeted ==
    LET Other(e) == e.uid \notin Targeted
    IN  SelectSeq(app.emails, Other)

\* C18: the ArchiveEmail and DeleteEmail arms of the driver leave in the message
\* list exactly the messages that are not targeted, in their previous order, and
\* leave the multi-select set empty; the targets are the multi-select set when it
\* is not empty and the message under the cursor otherwise.
RemovesExactlyTargeted ==
    /\ action.type = "ArchiveEmail"
         => LET b == run_archive_email(app)
            IN  b.emails = NotTargeted /\ b.selected = {}
    /\ action.type = "DeleteEmail"
         => LET b == run_delete_email(app)
            IN  b.emails = NotTargeted /\ b.selected = {}

\* Two multi-selected messages out of three have just been deleted.
TwoSelectedDeleted ==
    /\ action = ActionNone /\ app.view = "Inbox"
    /\ app.notification = Some([message |-> "Deleted", is_error |-> FALSE])
    /\ Len(app.emails) = 1 /\ app.emails[1].uid = 3 /\ app.selected = {}

\* The cursor of a is an index into its message list, or none when the list is empty.
CursorValidOrNone(a) ==
    IF a.emails = <<>> THEN a.list_state = None
    ELSE IsSome(a.list_state) /\ Unwrap(a.list_state) < Len(a.emails)

\* C19: when the ArchiveEmail, DeleteEmail or RemindEmail arm of the driver has
\* removed messages, the cursor is an index into the message list, or none when
\* the list is now empty.
CursorValidAfterRemoval ==
    /\ action.type = "ArchiveEmail"
         => LET b == run_archive_email(app)
            IN  Len(b.emails) < Len(app.emails) => CursorValidOrNone(b)
    /\ action.type = "DeleteEmail"
         => LET b == run_delete_email(app)
            IN  Len(b.emails) < Len(app.emails) => CursorValidOrNone(b)
    /\ action.type = "RemindEmail"
         => \A saved \in BOOLEAN :
               LET b == run_remind_email(app, reminders, action.uid, action.text,
                                         now, saved).app
               IN  Len(b.emails) < Len(app.emails) => CursorValidOrNone(b)

\* ------------------------------------------------------------------------
\* SpecDuration: a duration typed into the Remind view, Enter, and the
\* RemindEmail arm of the driver, which parses it.
\* ------------------------------------------------------------------------

\* Counts whose durations are small numbers of minutes, with their values.
SmallCounts ==
    { [text |-> <<"0">>, small |-> TRUE, value |-> 0],
      [text |-> <<"1">>, small |-> TRUE, value |-> 1],
      [text |-> <<"2">>, small |-> TRUE, value |-> 2],
      [text |-> <<"0", "3">>, small |-> TRUE, value |-> 3],
      [text |-> <<"+", "2">>, small |-> TRUE, value |-> 2],
      [text |-> <<"-", "1">>, small |-> TRUE, value |-> 0 - 1] }

\* i64::MAX, i64::MAX + 1, i64::MIN, and one more than the largest number of
\* minutes a Duration holds.
LargeCounts ==
    { [text |-> c, small |-> FALSE, value |-> 0] :
        c \in { <<"9", "2", "2", "3", "3", "7", "2", "0", "3", "6", "8", "5", "4", "7", "7", "5", "8", "0", "7">>,
                <<"9", "2", "2", "3", "3", "7", "2", "0", "3", "6", "8", "5", "4", "7", "7", "5", "8", "0", "8">>,
                <<"-">> \o <<"9", "2", "2", "3", "3", "7", "2", "0", "3", "6", "8", "5", "4", "7", "7", "5", "8", "0", "8">>,
                <<"1", "5", "3", "7", "2", "2", "8", "6", "7", "2", "8", "0", "9", "1", "3">> } }

to_uppercase_char(c) ==
    CASE c = "a" -> "A" [] c = "d" -> "D" [] c = "e" -> "E" [] c = "h" -> "H" [] c = "i" -> "I"
      [] c = "k" -> "K" [] c = "m" -> "M" [] c = "n" -> "N" [] c = "o" -> "O" [] c = "r" -> "R"
      [] c = "s" -> "S" [] c = "t" -> "T" [] c = "u" -> "U" [] c = "w" -> "W" [] c = "y" -> "Y"
      [] OTHER -> c

\* A word in lower case, in upper case and capitalised.
Cases(w) ==
    { w, [i \in 1..Len(w) |-> to_uppercase_char(w[i])],
      [i \in 1..Len(w) |-> IF i = 1 THEN to_uppercase_char(w[i]) ELSE w[i]] }

\* The recognized units, singular and plural, in three letter cases, each with
\* its length in minutes.
UnitSpellings ==
    UNION { { [spelling |-> w, minutes |-> u[2]] :
                w \in Cases(u[1]) \cup Cases(Append(u[1], "s")) } :
            u \in { <<<<"m", "i", "n", "u", "t", "e">>, 1>>, <<<<"h", "o", "u", "r">>, 60>>,
                    <<<<"d", "a", "y">>, 24 * 60>>, <<<<"w", "e", "e", "k">>, 7 * 24 * 60>>,
                    <<<<"m", "o", "n", "t", "h">>, 30 * 24 * 60>> } }

\* Texts of other shapes: no count, an unknown unit, two separating spaces, a
\* leading space, no separator, a third word, a count that is not a number.
TextBad == <<"b", "a", "d">>
TextBadInput == <<"b", "a", "d", " ", "i", "n", "p", "u", "t">>
TextFortnights == <<"5", " ", "f", "o", "r", "t", "n", "i", "g", "h", "t", "s">>
TextTwoSpaces == <<"2", " ", " ", "d", "a", "y", "s">>
OtherTexts ==
    { TextBad, TextBadInput, TextFortnights, TextTwoSpaces,
      <<" ", "2", " ", "d", "a", "y", "s">>,
      <<"2", "d", "a", "y", "s">>,
      <<"2", " ", "d", "a", "y", "s", " ", "n", "o", "w">>,
      <<"x", " ", "d", "a", "y", "s">> }

\* What is typed: a count, a space and a unit, or something that is neither.
DurationTexts ==
    { c.text \o <<" ">> \o u.spelling : c \in SmallCounts \cup LargeCounts, u \in UnitSpellings }
        \cup OtherTexts

InitDuration ==
    /\ \E text \in DurationTexts :
          app = [set_emails(AppNew, ListOf({1, 2}, MaxUid))
                    EXCEPT !.view = "Remind",
                           !.remind = [input |-> text, cursor |-> Len(text)]]
    /\ reminders = <<>>
    /\ action = ActionNone
    /\ now \in 0..MaxNow
    /\ thread = None

NextDuration ==
    \/ RemindKey({Key("Enter")})
    \/ DriveRemindEmail

SpecDuration == InitDuration /\ [][NextDuration]_vars

\* C20: for every count n and every recognized unit, in any letter case,
\* parse_duration("n unit") succeeds, with n minutes, n x 60 minutes, n x 24
\* hours, n x 7 days or n x 30 days, and calculate_return_time is the current
\* time plus that duration.
ParseDurationEveryInteger ==
    action.type = "RemindEmail"
        => \A c \in SmallCounts \cup LargeCounts, u \in UnitSpellings :
              action.text = c.text \o <<" ">> \o u.spelling
                => LET d == parse_duration(action.text)
                   IN  /\ d.ok
                       /\ c.small
                            => /\ d.minutes = c.value * u.minutes
                               /\ calculate_return_time(action.text, now)
                                    = [ok |-> TRUE, time |-> now + c.value * u.minutes,
                                       panic |-> FALSE]

\* C21: parse_duration fails with the format error on an input that is not a
\* count followed by a unit ("bad", "bad input"), and with the unknown-unit error
\* on a count followed by an unrecognized unit ("5 fortnights").
FailuresClassified ==
    action.type = "RemindEmail"
        => LET d == parse_duration(action.text)
           IN  /\ action.text \in {TextBad, TextBadInput}
                    => ~d.ok /\ ~d.panic /\ d.error = "Invalid format"
               /\ action.text = TextFortnights
                    => ~d.ok /\ ~d.panic /\ d.error = "Unknown time unit"

\* The text is a count, one space and a recognized unit.
CountSpaceUnit(text) ==
    \E c \in SmallCounts \cup LargeCounts, u \in UnitSpellings :
        text = c.text \o <<" ">> \o u.spelling

\* C22: parse_duration succeeds only on a text that, trimmed, is an integer, one
\* space and a recognized unit.
SucceedsOnlyOnShape ==
    action.type = "RemindEmail"
        => (parse_duration(action.text).ok => CountSpaceUnit(action.text))

\* ------------------------------------------------------------------------
\* SpecReminders: messages snoozed from the Inbox (h, a duration, Enter, the
\* RemindEmail arm of the driver) while the clock advances.
\* ------------------------------------------------------------------------

\* Utc::now() advances between two events.
Tick ==
    /\ now < MaxTicks * TickMinutes
    /\ now' = now + TickMinutes
    /\ UNCHANGED <<app, reminders, action, thread>>

\* The keys that type "1 hour" and submit it, or leave the prompt.
SnoozeKeys ==
    { Char("1"), Char(" "), Char("h"), Char("o"), Char("u"), Char("r"), Key("Enter"),
      Key("Esc") }

NextReminders ==
    \/ InboxKey({Char("j"), Char("h")})
    \/ RemindKey(SnoozeKeys)
    \/ DriveRemindEmail
    \/ Tick

\* The session starts with every message of the mailbox listed and nothing snoozed.
InitReminders ==
    /\ app = set_emails(AppNew, ListOf(1..MaxUid, MaxUid))
    /\ reminders = <<>>
    /\ action = ActionNone
    /\ now = 0
    /\ thread = None

SpecReminders == InitReminders /\ [][NextReminders]_vars

SpecRemindersLive == SpecReminders /\ WF_vars(NextReminders) /\ WF_vars(Tick)

\* The oldest stored reminder, when its due time has passed.
OldestDue == reminders /= <<>> /\ reminders[1].return_time <= now

\* C24: when the due time of the oldest stored reminder has passed, that reminder
\* is eventually no longer in the store.
DueReminderEventuallyRemoved == OldestDue ~> ~OldestDue

\* The App b is the App a with an error notification, and nothing else changed.
OnlyErrorNotified(a, b) ==
    /\ IsSome(b.notification) /\ Unwrap(b.notification).is_error
    /\ b = [a EXCEPT !.notification = b.notification]

\* C25: the SendEmail arm with an empty To field, and the SaveDraft arm with To
\* and Cc both empty, set an error notification and change nothing else,
\* whatever the transport would have answered.
RejectedLocally ==
    /\ (action.type = "SendEmail" /\ app.compose.to = <<>>)
          => \A sent \in BOOLEAN : OnlyErrorNotified(app, run_send_email(app, sent))
    /\ (action.type = "SaveDraft" /\ app.compose.to = <<>> /\ app.compose.cc = <<>>)
          => \A saved \in BOOLEAN : OnlyErrorNotified(app, run_save_draft(app, saved))

\* A send with an empty To field has been refused, with Cc filled in.
SendRefused ==
    /\ app.view = "Compose" /\ action = ActionNone
    /\ app.compose.to = <<>> /\ app.compose.cc /= <<>>
    /\ app.notification = Some([message |-> "'To' field is empty", is_error |-> TRUE])

\* C26: when Enter in the Remind view submits a text that parse_duration rejects,
\* the RemindEmail arm of the driver sets an error notification, and the reminder
\* store, the message list, the cursor, the view and the remind input are what
\* they were before the Enter.
RejectedDurationChangesNothing ==
    (action = ActionNone /\ app.view = "Remind")
        => LET r == handle_key_event(app, Key("Enter"), ViewHeight)
               d == parse_duration(r.action.text)
           IN  (r.action.type = "RemindEmail" /\ ~d.ok /\ ~d.panic)
                 => \A saved \in BOOLEAN :
                       LET b == run_remind_email(r.app, reminders, r.action.uid,
                                                 r.action.text, now, saved)
                       IN  /\ IsSome(b.app.notification)
                           /\ Unwrap(b.app.notification).is_error
                           /\ b.reminders = reminders
                           /\ b.app.emails = app.emails
                           /\ b.app.list_state = app.list_state
                           /\ b.app.view = app.view
                           /\ b.app.remind = app.remind

\* The App b carries an error notification and the message list of the App a.
FailureSurfaced(a, b) ==
    /\ IsSome(b.notification) /\ Unwrap(b.notification).is_error
    /\ b.emails = a.emails
    /\ ~b.should_quit /\ ~b.panicked

\* C27: when the transport call of a driver arm fails (Refresh, SendEmail,
\* SaveDraft, ArchiveEmail, MarkAsRead), the App the arm leaves carries an error
\* notification and the message list loaded before.
TransportFailureSurfaced ==
    /\ action.type = "Refresh" => FailureSurfaced(app, run_refresh(app, None))
    /\ (action.type = "SendEmail" /\ app.compose.to /= <<>>)
         => FailureSurfaced(app, run_send_email(app, FALSE))
    /\ (action.type = "SaveDraft" /\ ~(app.compose.to = <<>> /\ app.compose.cc = <<>>))
         => FailureSurfaced(app, run_save_draft(app, FALSE))
    /\ action.type = "ArchiveEmail" => FailureSurfaced(app, run_archive_email(app))
    /\ action.type = "MarkAsRead"
         => FailureSurfaced(app, run_mark_as_read(app, action.uid, FALSE))

\* The step is the whole of the driver arm for the pending Action.
ArmCompleted ==
    CASE action.type = "Refresh" ->
            reminders' = reminders /\ \E fetched \in Fetched : app' = run_refresh(app, fetched)
      [] action.type = "ChangeFolder" ->
            /\ reminders' = reminders
            /\ \E fetched \in Fetched : app' = run_change_folder(app, action.folder, fetched)
      [] action.type = "SendEmail" ->
            reminders' = reminders /\ \E sent \in BOOLEAN : app' = run_send_email(app, sent)
      [] action.type = "SaveDraft" ->
            reminders' = reminders /\ \E saved \in BOOLEAN : app' = run_save_draft(app, saved)
      [] action.type = "ArchiveEmail" ->
            reminders' = reminders /\ app' = run_archive_email(app)
      [] action.type = "DeleteEmail" ->
            reminders' = reminders /\ app' = run_delete_email(app)
      [] action.type = "MarkAsRead" ->
            /\ reminders' = reminders
            /\ \E marked \in BOOLEAN : app' = run_mark_as_read(app, action.uid, marked)
      [] action.type = "RemindEmail" ->
            \E saved \in BOOLEAN :
               LET r == run_remind_email(app, reminders, action.uid, action.text, now, saved)
               IN  app' = r.app /\ reminders' = r.reminders
      [] OTHER -> FALSE

\* C28: a step of the loop is either a key event handled while no Action is
\* pending, which yields one Action and leaves the reminder store alone, or the
\* whole driver arm of the pending Action, after which no Action is pending: no
\* key is handled between an Action and the end of its arm.
OneActionAtATime ==
    [][ IF action = ActionNone
        THEN /\ reminders' = reminders
             /\ \E key \in NotifyKeys :
                   /\ app' = handle_key_event(app, key, ViewHeight).app
                   /\ action' = handle_key_event(app, key, ViewHeight).action
        ELSE action' = ActionNone /\ ArmCompleted ]_vars

\* A draft save has been requested and its arm has not run yet.
SaveDraftPending ==
    /\ action.type = "SaveDraft" /\ app.view = "Compose" /\ app.compose.to /= <<>>

\* The key is a digit that extends the count, or a press of d or c that arms
\* the operator.
ArmsOrCounts(a, key) ==
    \/ \E c \in Digits : IsChar(key, c)
    \/ IsChar(key, "0") /\ a.compose.vim.count /= None
    \/ IsChar(key, "d") /\ a.compose.vim.operator /= "Delete"
    \/ IsChar(key, "c") /\ a.compose.vim.operator /= "Change"

\* The keys after which C29 says nothing is pending.
CompletingKeys(a) ==
    { Char(c) : c \in {"h", "l", "w", "b", "e", "$", "x", "j", "k", "i", "a", "A", "I", "o",
                      "q", "z"} }
        \cup (IF a.compose.vim.count = None THEN {Char("0")} ELSE {})
        \cup (IF a.compose.vim.operator = "Delete" THEN {Char("d")} ELSE {})
        \cup (IF a.compose.vim.operator = "Change" THEN {Char("c")} ELSE {})
        \cup (IF a.compose.vim /= VimStateDefault THEN {Key("Esc")} ELSE {})

\* C29: in Compose Normal mode the pending operator and count are None after a
\* key that completes a motion or operator, after q, after an unrecognized key
\* and after Esc with something pending; the only keys after which something is
\* pending are a digit that extends the count and a first press of d or c.
PendingStateReset ==
    (action = ActionNone /\ app.view = "Compose" /\ app.compose.edit_mode = "Normal")
        => /\ \A key \in CompletingKeys(app) :
                 handle_key_event(app, key, ViewHeight).app.compose.vim = VimStateDefault
           /\ \A key \in NormalKeys \cup {Ctrl("s")} :
                 handle_key_event(app, key, ViewHeight).app.compose.vim /= VimStateDefault
                    => ArmsOrCounts(app, key)


\* The text of the four fields of the draft.
ComposeText(a) == <<a.compose.to, a.compose.cc, a.compose.subject, a.compose.body>>

\* What an armed operator leaves after the motion key: the text without the
\* span, the pending state cleared, Insert mode for c.
Operated(a, Delete(_)) ==
    LET cut == reset_vim_state(Repeat(Delete, a, get_vim_count(a)))
    IN  IF a.compose.vim.operator = "Change"
        THEN [cut EXCEPT !.compose.edit_mode = "Insert"]
        ELSE cut

\* C30: d and c are two-stage.  The first press only arms the operator: nothing
\* but the pending operator changes.  An armed d followed by w or e deletes the
\* span and stays in Normal mode, an armed c followed by w or e deletes it and
\* switches to Insert mode; d while Delete is armed, c while Change is armed,
\* deletes the current line (c switching to Insert mode).  With no operator
\* armed, w and e move the cursor only: no field's text changes.
OperatorsTwoStage ==
    (action = ActionNone /\ app.view = "Compose" /\ app.compose.edit_mode = "Normal")
        => LET op == app.compose.vim.operator
               After(c) == handle_key_event(app, Char(c), ViewHeight)
               Draft(c) == After(c).app.compose
               line == reset_vim_state(delete_current_line(app))
           IN  /\ \A c \in {"d", "c", "w", "e"} :
                     /\ After(c).action = ActionNone
                     /\ After(c).app.view = "Compose"
               /\ Draft("d") =
                     IF op = "Delete" THEN line.compose
                     ELSE [app.compose EXCEPT !.vim.operator = "Delete"]
               /\ Draft("c") =
                     IF op = "Change" THEN [line.compose EXCEPT !.edit_mode = "Insert"]
                     ELSE [app.compose EXCEPT !.vim.operator = "Change"]
               /\ op /= "None"
                     => /\ Draft("w") = Operated(app, delete_word_forward).compose
                        /\ Draft("e") = Operated(app, delete_to_word_end).compose
                        /\ \A c \in {"w", "e"} :
                              Draft(c).edit_mode = IF op = "Change" THEN "Insert" ELSE "Normal"
               /\ op = "None"
                     => \A c \in {"w", "e"} :
                           /\ ComposeText(After(c).app) = ComposeText(app)
                           /\ Draft(c).edit_mode = "Normal"

\* Change is armed over a field with text, and w deletes some of it and
\* switches to Insert mode.
ChangeWordArmed ==
    /\ action = ActionNone
    /\ app.view = "Compose"
    /\ app.compose.edit_mode = "Normal"
    /\ app.compose.vim.operator = "Change"
    /\ LET after == handle_key_event(app, Char("w"), ViewHeight).app
       IN  /\ Len(get_current_field(after)) < Len(get_current_field(app))
           /\ after.compose.edit_mode = "Insert"


\* ------------------------------------------------------------------------
\* SpecSort: the order of a thread.  fetch_thread is applied to a message that
\* has an id, against a mailbox whose search finds candidates with no date,
\* with equal dates and with different dates, in any order.
\* ------------------------------------------------------------------------

\* The latest timestamp of a candidate.
MaxDate == 2

SortedMessage == Email(1, <<"a">>, <<>>, Some(1), TRUE, Some("a"), None, <<>>)

\* The candidates: one without a date, two of the same date, one later.
DatedMessages ==
    { OtherMessage, SortedMessage,
      Email(2, <<"b">>, <<>>, Some(1), FALSE, Some("b"), Some("a"), <<"a">>),
      Email(3, <<"b">>, <<>>, Some(MaxDate), FALSE, Some("c"), Some("a"), <<"a">>) }

SortAnswers ==
    [ search_ok : BOOLEAN, fetch_ok : BOOLEAN,
      cands : SeqsUpTo({None} \cup {Some(m) : m \in DatedMessages}, MaxCands + 1) ]

InitSort ==
    /\ app = set_emails(AppNew, <<SortedMessage>>)
    /\ reminders = <<>>
    /\ action = ActionNone
    /\ now = 0
    /\ thread = None

\* ImapClient::fetch_thread applied to the message
CallFetchThreadOnce ==
    /\ thread = None
    /\ \E srv \in SortAnswers : thread' = Some(fetch_thread(app.emails[1], srv))
    /\ UNCHANGED <<app, reminders, action, now>>

NextSort == CallFetchThreadOnce

SpecSort == InitSort /\ [][NextSort]_vars

\* The dates in ascending order: no date first.
DatesAscending == <<None>> \o [d \in 1..(MaxDate + 1) |-> Some(d - 1)]

RECURSIVE GroupedByDate(_, _)
\* The messages of each date in turn, from the k-th date on, those of one date
\* in the order they have in emails.
GroupedByDate(emails, k) ==
    IF k > Len(DatesAscending) THEN <<>>
    ELSE LET HasDate(e) == e.date = DatesAscending[k]
         IN  SelectSeq(emails, HasDate) \o GroupedByDate(emails, k + 1)

\* The call returned the candidates the search found.
ReturnedCandidates(t) ==
    /\ t.called /\ t.result.ok
    /\ ThreadMessageIds(t.email) /= <<>>
    /\ t.srv.cands /= <<>>

\* C31: when fetch_thread returns the candidates found by the search, they are
\* in ascending order of timestamp, those without a timestamp before all those
\* with one, and messages of equal timestamp in the order the mailbox returned
\* them.
ThreadSortedByDate ==
    (IsSome(thread) /\ ReturnedCandidates(Unwrap(thread)))
        => LET t == Unwrap(thread)
               r == t.result.emails
           IN  /\ \A i, j \in 1..Len(r) : i < j => DateLeq(r[i].date, r[j].date)
               /\ r = GroupedByDate(ParsedCandidates(t.srv.cands), 1)

\* The mailbox returned a later message, two of one date and one without a
\* date, and the call put them in order.
ThreadReordered ==
    /\ IsSome(thread) /\ ReturnedCandidates(Unwrap(thread))
    /\ LET t == Unwrap(thread)
       IN  /\ Len(t.result.emails) = 3
           /\ t.result.emails /= ParsedCandidates(t.srv.cands)
           /\ \E i, j \in 1..3 :
                 /\ i < j
                 /\ t.result.emails[i].date = t.result.emails[j].date
                 /\ t.result.emails[i].uid > t.result.emails[j].uid


\* The right-associated chain OR p1 OR p2 ... OR p(n-1) pn of the Message-ID
\* predicates of ids, word by word.
OrChain(ids) ==
    LET n == Len(ids)
    IN  [k \in 1..(4 * n - 1) |->
            LET i == ((k - 1) \div 4) + 1
                w == ((k - 1) % 4) + 1
            IN  IF i < n
                THEN <<"OR", "HEADER", "Message-ID", ids[i]>>[w]
                ELSE <<"HEADER", "Message-ID", ids[i]>>[w]]

\* s holds no element twice.
NoDuplicates(s) == \A i, j \in 1..Len(s) : i /= j => s[i] /= s[j]

\* s is r, then x if x is present and not in r.
ThenUnlessPresent(s, r, x) ==
    s = IF IsSome(x) /\ Unwrap(x) \notin Elems(r) THEN Append(r, Unwrap(x)) ELSE r

\* The id list holds the references in their order, then in_reply_to, then the
\* message's own id, and the query is the chain over that list.
IdsInOrderAndChained(t) ==
    LET ids == ThreadMessageIds(t.email)
    IN  /\ \E mid \in SeqsUpTo(MessageIds, MaxRefs + 1) :
              /\ ThenUnlessPresent(mid, t.email.references, t.email.in_reply_to)
              /\ ThenUnlessPresent(ids, mid, t.email.message_id)
        /\ t.query = IF ids = <<>> THEN None ELSE Some(OrChain(ids))

\* C32: the id list collected by fetch_thread holds each distinct id exactly
\* once, in the order references, in_reply_to, own id, and the query for n >= 1
\* ids is the right-associated chain of n-1 ORs over the n Message-ID predicates
\* in that order.
IdsOnceAndChained ==
    (IsSome(thread) /\ Unwrap(thread).called)
        => /\ NoDuplicates(ThreadMessageIds(Unwrap(thread).email))
           /\ Elems(ThreadMessageIds(Unwrap(thread).email)) = HeaderIds(Unwrap(thread).email)
           /\ IdsInOrderAndChained(Unwrap(thread))


\* The store rs holds a reminder for uid; the list of a holds the message uid.
ReminderStored(rs, uid) == \E i \in 1..Len(rs) : rs[i].uid = uid
MessageListed(a, uid) == \E i \in 1..Len(a.emails) : a.emails[i].uid = uid

\* The RemindEmail arm either snoozed the message (reminder stored, message
\* off the list) or did neither (store as before, message still listed).
SnoozedOrUntouched(rs, uid, r) ==
    \/ ReminderStored(r.reminders, uid) /\ ~MessageListed(r.app, uid)
    \/ r.reminders = rs /\ MessageListed(r.app, uid)

\* C33: after the driver has handled RemindEmail(uid, text), either a reminder
\* for uid is in the store and the message is no longer in the list, or no
\* reminder was added and the message is still in the list, whether or not the
\* duration parses and the store is saved.
ReminderPairedWithArchive ==
    (action.type = "RemindEmail" /\ MessageListed(app, action.uid))
        => \A saved \in BOOLEAN :
              SnoozedOrUntouched(reminders, action.uid,
                  run_remind_email(app, reminders, action.uid, action.text, now, saved))


\* C34: whenever the compose editor is in Insert mode there is no pending
\* operator and no pending count: every way into Insert mode leaves both None
\* and no Insert-mode key sets them.
InsertModeNothingPending ==
    app.compose.edit_mode = "Insert" => app.compose.vim = VimStateDefault

\* Change is armed with a count pending in Normal mode, and w enters Insert
\* mode with nothing pending.
CountedChangeEntersInsert ==
    /\ action = ActionNone
    /\ app.view = "Compose"
    /\ app.compose.edit_mode = "Normal"
    /\ app.compose.vim.operator = "Change"
    /\ IsSome(app.compose.vim.count)
    /\ LET after == handle_key_event(app, Char("w"), ViewHeight).app
       IN  after.compose.edit_mode = "Insert" /\ after.compose.vim = VimStateDefault


\* ------------------------------------------------------------------------
\* SpecView: reading.  Messages are marked in the list, opened, stepped through
\* with j and k inside EmailView, archived and deleted from there.
\* ------------------------------------------------------------------------

ViewInboxKeys == { Char("j"), Char("x"), Key("Enter") }
ViewEmailKeys == { Char("j"), Char("k"), Char("e"), Char("d"), Key("Esc") }

NextView ==
    \/ InboxKey(ViewInboxKeys)
    \/ EmailViewKey(ViewEmailKeys)
    \/ DriveMarkAsRead
    \/ DriveArchiveEmail
    \/ DriveDeleteEmail

SpecView == Init /\ [][NextView]_vars

\* C35: whenever the view is EmailView the cursor designates an existing
\* message: selected_email() is Some.
EmailViewHasMessage ==
    app.view = "EmailView" => IsSome(selected_email(app))

\* C36: whenever the view is EmailView and the driver has handled the Action of
\* the latest key event, the message displayed has its read flag set.
DisplayedMessageIsRead ==
    (app.view = "EmailView" /\ action = ActionNone /\ IsSome(selected_email(app)))
        => Unwrap(selected_email(app)).seen

\* The list without the message of the given uid.
WithoutMessage(emails, uid) ==
    LET Other(e) == e.uid /= uid
    IN  SelectSeq(emails, Other)

\* C37: an ArchiveEmail or DeleteEmail issued by e or d in EmailView removes
\* the message being viewed from the list and no other message.
RemovesViewedMessage ==
    (app.view = "EmailView" /\ action.type \in {"ArchiveEmail", "DeleteEmail"}
        /\ IsSome(selected_email(app)))
        => LET viewed == Unwrap(selected_email(app)).uid
               after == IF action.type = "ArchiveEmail" THEN run_archive_email(app)
                        ELSE run_delete_email(app)
           IN  after.emails = WithoutMessage(app.emails, viewed)


\* The folder, the message list and the cursor of b are those of a.
SameFolderListCursor(a, b) ==
    /\ b.current_folder = a.current_folder
    /\ b.emails = a.emails
    /\ b.list_state = a.list_state

\* C38: current_folder changes only in the step that handles a ChangeFolder
\* whose fetch succeeded, and then the list is the fetched one; when the fetch
\* of a ChangeFolder or of a Refresh fails, the folder, the list and the cursor
\* are as before.
FolderChangesWithList ==
    [][ /\ app'.current_folder /= app.current_folder
            => /\ action.type = "ChangeFolder"
               /\ app'.current_folder = action.folder
               /\ \E emails \in ServerLists :
                     /\ app'.emails = emails
                     /\ emails /= <<>> => app'.list_state = Some(0)
        /\ action.type = "ChangeFolder"
            => SameFolderListCursor(app, run_change_folder(app, action.folder, None))
        /\ action.type = "Refresh"
            => SameFolderListCursor(app, run_refresh(app, None)) ]_vars

\* A folder other than the current one was asked for and its fetch fails.
FolderFetchFails ==
    /\ action.type = "ChangeFolder"
    /\ action.folder /= app.current_folder
    /\ app.emails /= <<>>
    /\ IsSome(run_change_folder(app, action.folder, None).notification)


\* ------------------------------------------------------------------------
\* SpecEsc: leaving with Esc.  The session has read a few keys, in any view;
\* from there only Esc is pressed, and every transport call succeeds.
\* ------------------------------------------------------------------------

\* The number of keys read before the first Esc of the run.
MaxKeys == 4

\* The keys that open each view and type into it.
SetupKeys ==
    { Key("Enter"), Key("Esc"), Key("Tab"), Char("c"), Char("/"), Char(":"), Char("?"),
      Char("h"), Char("a") }

RECURSIVE AfterKeys(_, _)
\* The App after the keys, one handle_key_event each, up to the first key that
\* returns an Action; a key that types past the bounds is not pressed.
AfterKeys(a, keys) ==
    IF keys = <<>> THEN a
    ELSE LET r == handle_key_event(a, Head(keys), ViewHeight)
         IN  IF r.action /= ActionNone THEN a
             ELSE IF WithinBounds(a, r.app) THEN AfterKeys(r.app, Tail(keys))
             ELSE AfterKeys(a, Tail(keys))

InitEsc ==
    /\ \E keys \in SeqsUpTo(SetupKeys, MaxKeys) :
          app = AfterKeys(set_emails(AppNew, ListOf({1}, MaxUid)), keys)
    /\ reminders = <<>>
    /\ action = ActionNone
    /\ now = 0
    /\ thread = None

\* event::read() returns Esc
PressEsc == KeyEvent(Key("Esc"))

\* Action::SaveDraft, save_draft returning Ok
SaveDraftSucceeds ==
    /\ action.type = "SaveDraft"
    /\ app' = run_save_draft(app, TRUE)
    /\ action' = ActionNone
    /\ UNCHANGED <<reminders, now, thread>>

NextEsc == PressEsc \/ SaveDraftSucceeds

SpecEsc == InitEsc /\ [][NextEsc]_vars /\ WF_vars(NextEsc)

\* C39: from every reachable state, in any view, pressing Esc repeatedly, the
\* driver handling each Action and every transport call succeeding, eventually
\* brings the view to Inbox.
EscEventuallyInbox == <>(app.view = "Inbox")


\* C40: for every duration string parse_duration accepts, the due time of the
\* reminder RemindEmail creates is strictly later than the time of creation,
\* and get_due_reminders does not report the message at that time.
AcceptedDurationIsFuture ==
    (action.type = "RemindEmail" /\ parse_duration(action.text).ok)
        => LET r == run_remind_email(app, reminders, action.uid, action.text, now, TRUE)
           IN  /\ calculate_return_time(action.text, now).time > now
               /\ ~Contains(get_due_reminders(r.reminders, now), action.uid)

====
